---- MODULE Spec2Model ----
(***************************************************************************)
(* Model of the finanzas-jader single-page application (src/src/App.tsx).  *)
(*                                                                         *)
(* Encodings used throughout:                                              *)
(*  - a JavaScript string that the code takes apart character by character *)
(*    (money input, search text) is a sequence of one-character strings;   *)
(*  - a JavaScript number holding money is a fixed-point integer counting  *)
(*    units of 10^-FracDigits, exact for every decimal the bounded inputs  *)
(*    can spell;                                                           *)
(*  - a date "YYYY-MM-DD" is the integer YYYYMMDD and a month "YYYY-MM"    *)
(*    the integer YYYYMM: the code only compares dates lexicographically   *)
(*    and slices the month prefix, which these integers preserve; the      *)
(*    empty date string of the table filters is 0;                         *)
(*  - a time "HH:mm:ss" is the integer HHmmss;                             *)
(*  - a JSON text is the value it denotes, tagged with its JSON kind;      *)
(*  - null and undefined user, and the empty session, are "".              *)
(* Presentational state (active tab, open modals, theme) is not part of    *)
(* the model; the status message cloudMsg is.                              *)
(***************************************************************************)
EXTENDS Integers, Sequences, FiniteSets, TLC

VARIABLES
    tx,             \* Tx[]: the record store, most recent first
    month,          \* active reporting month
    form,           \* capture form
    trf,            \* transfer form
    editingTx,      \* record being edited, or NoTx
    view,           \* chart grouping: categoria | subcategoria | cuenta
    selectedCat,    \* drill-down category of the chart ("" = none)
    accFilter,      \* chart account filter
    timeMode,       \* chart range mode: mes | rango
    from,           \* chart range start
    to,             \* chart range end
    search,         \* table search text
    sortKey,        \* table sort key: fecha | cuenta
    sortDir,        \* table sort direction: Asc | Desc
    page,           \* table page index
    selectedIds,    \* ids ticked in the table
    filterDateFrom, \* table filter: first date (0 = unset)
    filterDateTo,   \* table filter: last date (0 = unset)
    filterType,     \* table filter: record type or "Todos"
    filterAccount,  \* table filter: account
    nextId,         \* supply of fresh ids (crypto.randomUUID)
    tags,           \* tag taxonomy: category -> subcategories
    budget,         \* monthly budget
    goals,          \* savings goals shown in the goals tab
    storage,        \* localStorage: the blobs fj_tx_v2, fj_tags_v2, fj_month_v2, fj_budget_v2
    download,       \* the last exported JSON document
    userEmail,      \* React state: e-mail of the signed-in user, or ""
    session,        \* the auth session held by the Supabase client, or ""
    cloudBusy,      \* React state: a cloud operation is running
    remote,         \* the user's rows in the hosted tables movements, settings, goals
    procs,          \* asynchronous handlers in flight, each waiting at an await
    cloudMsg,       \* React state: the status message, or "" for null
    timers          \* pending setTimeout(() => setCloudMsg(null), ...) callbacks

vars == <<tx, month, form, trf, editingTx, view, selectedCat, accFilter,
          timeMode, from, to, search, sortKey, sortDir, page, selectedIds,
          filterDateFrom, filterDateTo, filterType, filterAccount, nextId,
          tags, budget, goals, storage, download, userEmail, session, cloudBusy,
          remote, procs, cloudMsg, timers>>

formVars == <<form, trf, editingTx>>

chartVars == <<view, selectedCat, accFilter, timeMode, from, to>>

tableVars == <<search, sortKey, sortDir, page, selectedIds, filterDateFrom,
               filterDateTo, filterType, filterAccount>>

prefVars == <<tags, budget>>

msgVars == <<cloudMsg, timers>>

cloudVars == <<goals, userEmail, session, cloudBusy, remote, procs, msgVars>>

\* everything but the record store, the forms, the charts and the table
restVars == <<prefVars, download, cloudVars>>

(***************************************************************************)
(* Bounds of the model.                                                    *)
(***************************************************************************)
\* longest money string typed into a MoneyInput
MaxLen == 4

\* decimals a string of MaxLen characters can spell (one is the comma)
FracDigits == MaxLen - 1

RECURSIVE Pow10(_)
Pow10(n) == IF n = 0 THEN 1 ELSE 10 * Pow10(n - 1)

\* fixed-point units per 1 COP
Unit == Pow10(FracDigits)

(***************************************************************************)
(* Generic helpers.                                                        *)
(***************************************************************************)
Abs(n) == IF n < 0 THEN -n ELSE n

Min(a, b) == IF a < b THEN a ELSE b

Max(a, b) == IF a > b THEN a ELSE b

\* all sequences over S of length at most n
SeqsUpTo(S, n) == UNION {[1..k -> S] : k \in 0..n}

(***************************************************************************)
(* Money normalizer: normalizeMoneyInput, App.tsx 54-76.                   *)
(***************************************************************************)
Digits == {"0", "1", "2", "3", "4", "5", "6", "7", "8", "9"}

\* characters the model types: three digits (none of them 5, so that no
\* input sits on a toFixed rounding tie, where the binary double decides),
\* the three punctuation marks the normalizer keeps, and two it drops
MoneyDigits == {"0", "1", "7"}
MoneyChars == MoneyDigits \cup {",", ".", "-"}
TypedChars == MoneyChars \cup {" ", "$"}

DigitVal(c) ==
    CASE c = "0" -> 0 [] c = "1" -> 1 [] c = "2" -> 2 [] c = "3" -> 3
      [] c = "4" -> 4 [] c = "5" -> 5 [] c = "6" -> 6 [] c = "7" -> 7
      [] c = "8" -> 8 [] c = "9" -> 9

DigitChar(d) == <<"0", "1", "2", "3", "4", "5", "6", "7", "8", "9">>[d + 1]

\* s.replace(/c/g, "") for one character c
RECURSIVE RemoveChar(_, _)
RemoveChar(s, c) ==
    IF s = <<>> THEN <<>>
    ELSE (IF Head(s) = c THEN <<>> ELSE <<Head(s)>>) \o RemoveChar(Tail(s), c)

\* .replace(/\s/g, "").replace(/[^\d.,-]/g, ""): keep digits . , -
RECURSIVE KeepMoneyChars(_)
KeepMoneyChars(s) ==
    IF s = <<>> THEN <<>>
    ELSE (IF Head(s) \in Digits \cup {",", ".", "-"} THEN <<Head(s)>> ELSE <<>>)
         \o KeepMoneyChars(Tail(s))

\* MoneyInput's sanitizeTyping: s.replace(/[^\d.,-]/g, "")
sanitizeTyping(s) == KeepMoneyChars(s)

\* .replace(/(,)(?=.*,)/g, ""): drop every comma that a later comma follows
RECURSIVE KeepLastComma(_)
KeepLastComma(s) ==
    IF s = <<>> THEN <<>>
    ELSE (IF Head(s) = "," /\ \E i \in 1..Len(Tail(s)) : Tail(s)[i] = ","
          THEN <<>> ELSE <<Head(s)>>) \o KeepLastComma(Tail(s))

\* the lookahead (?=\d{3}(\D|$)) at position i (the character after a dot)
ThreeDigitsThenEnd(s, i) ==
    /\ i + 2 <= Len(s)
    /\ \A k \in i..(i + 2) : s[k] \in Digits
    /\ (i + 3 > Len(s) \/ s[i + 3] \notin Digits)

\* .replace(/(\.)(?=\d{3}(\D|$))/g, ""): drop the thousands dots
DropThousandsDots(s) ==
    LET keep == {i \in 1..Len(s) : ~(s[i] = "." /\ ThreeDigitsThenEnd(s, i + 1))}
        F[i \in 0..Len(s)] ==
            IF i = 0 THEN <<>>
            ELSE IF i \in keep THEN Append(F[i - 1], s[i]) ELSE F[i - 1]
    IN F[Len(s)]

\* clean.split(","): the pieces between commas
RECURSIVE SplitComma(_)
SplitComma(s) ==
    IF \A i \in 1..Len(s) : s[i] # "," THEN <<s>>
    ELSE LET p == CHOOSE i \in 1..Len(s) :
                      s[i] = "," /\ \A j \in 1..(i - 1) : s[j] # ","
         IN <<SubSeq(s, 1, p - 1)>> \o SplitComma(SubSeq(s, p + 1, Len(s)))

\* s.replace(",", "."): the first comma only
ReplaceFirstComma(s) ==
    IF \A i \in 1..Len(s) : s[i] # "," THEN s
    ELSE LET p == CHOOSE i \in 1..Len(s) :
                      s[i] = "," /\ \A j \in 1..(i - 1) : s[j] # ","
         IN [s EXCEPT ![p] = "."]

AllDigits(s) == \A i \in 1..Len(s) : s[i] \in Digits

RECURSIVE DigitsToInt(_)
DigitsToInt(s) ==
    IF s = <<>> THEN 0 ELSE 10 * DigitsToInt(SubSeq(s, 1, Len(s) - 1)) + DigitVal(s[Len(s)])

\* value of the fraction digits f (after "0.") in fixed-point units
FracUnits(f) == DigitsToInt(f) * Pow10(FracDigits - Len(f))

\* Number(s) for a string of digits, dots and minus signs, as the pair
\* (nan, v): "" is 0; otherwise an optional leading minus, then digits with at
\* most one dot and a digit on at least one side of it; anything else is NaN
Number(s) ==
    LET neg  == s # <<>> /\ Head(s) = "-"
        body == IF neg THEN Tail(s) ELSE s
        dots == {i \in 1..Len(body) : body[i] = "."}
        ip   == IF dots = {} THEN body
                ELSE SubSeq(body, 1, (CHOOSE i \in dots : TRUE) - 1)
        fp   == IF dots = {} THEN <<>>
                ELSE SubSeq(body, (CHOOSE i \in dots : TRUE) + 1, Len(body))
        mag  == DigitsToInt(ip) * Unit + FracUnits(fp)
    IN IF s = <<>> THEN [nan |-> FALSE, v |-> 0]
       ELSE IF Cardinality(dots) > 1 \/ ~AllDigits(ip) \/ ~AllDigits(fp)
               \/ (ip = <<>> /\ fp = <<>>) THEN [nan |-> TRUE, v |-> 0]
       ELSE [nan |-> FALSE, v |-> IF neg THEN -mag ELSE mag]

\* a + b on numbers: NaN is contagious
NumAdd(a, b) ==
    IF a.nan \/ b.nan THEN [nan |-> TRUE, v |-> 0] ELSE [nan |-> FALSE, v |-> a.v + b.v]

RECURSIVE IntToDigits(_)
IntToDigits(n) ==
    IF n < 10 THEN <<DigitChar(n)>>
    ELSE Append(IntToDigits(n \div 10), DigitChar(n % 10))

\* Math.abs(num).toFixed(2).split("."): integer digits and two decimals,
\* rounded to the nearest hundredth
ToFixed2(num) ==
    LET a     == Abs(num)
        cents == ((a % Unit) * 100 + Unit \div 2) \div Unit
        ent   == a \div Unit + (IF cents = 100 THEN 1 ELSE 0)
        c     == IF cents = 100 THEN 0 ELSE cents
    IN [ent |-> IntToDigits(ent), dec |-> <<DigitChar(c \div 10), DigitChar(c % 10)>>]

\* ent.replace(/\B(?=(\d{3})+(?!\d))/g, "."): a dot before every group of three
WithDots(ent) ==
    LET n == Len(ent)
        F[i \in 0..n] ==
            IF i = 0 THEN <<>>
            ELSE F[i - 1]
                 \o (IF i > 1 /\ (n - i + 1) % 3 = 0 THEN <<".">> ELSE <<>>)
                 \o <<ent[i]>>
    IN F[n]

normalizeMoneyInput(s) ==
    IF s = <<>> THEN [raw |-> <<>>, value |-> 0]
    ELSE
      LET clean == DropThousandsDots(KeepLastComma(KeepMoneyChars(RemoveChar(s, " "))))
          parts == SplitComma(clean)
          n0    == IF Len(parts) = 2
                   THEN NumAdd(Number(RemoveChar(parts[1], ".")),
                               Number(<<"0", ".">> \o RemoveChar(parts[2], ".")))
                   ELSE Number(ReplaceFirstComma(RemoveChar(clean, ".")))
          num   == IF n0.nan THEN 0 ELSE n0.v
          fx    == ToFixed2(num)
          sign  == IF num < 0 THEN <<"-">> ELSE <<>>
      IN [raw |-> sign \o WithDots(fx.ent) \o <<",">> \o fx.dec, value |-> num]

toNumberFromRaw(raw) == normalizeMoneyInput(raw).value

(***************************************************************************)
(* Types and constants of the application, App.tsx 94-147.                 *)
(***************************************************************************)
TxTypes == {"Ingreso", "Gasto", "Transferencia"}

ACCOUNTS == <<"Banco Davivienda", "Banco de Bogotá", "Nequi", "Rappi", "Efectivo", "TC Rappi">>

Accounts == {ACCOUNTS[i] : i \in 1..Len(ACCOUNTS)}

\* editingTx = null
NoTx == [id |-> 0]

\* today's date: new Date() wherever the code reads the clock for a date
Today == 20240215

\* t.date.slice(0, 7)
MonthOf(date) == date \div 100

\* firstDayOfMonth(ym)
firstDayOfMonth(ym) == ym * 100 + 1

\* daysInMonth(ym): new Date(y, m, 0).getDate()
daysInMonth(ym) ==
    LET y == ym \div 100
        m == ym % 100
        leap == (y % 4 = 0 /\ y % 100 # 0) \/ y % 400 = 0
    IN IF m = 2 THEN (IF leap THEN 29 ELSE 28)
       ELSE IF m \in {4, 6, 9, 11} THEN 30 ELSE 31

\* lastDayOfMonth(ym)
lastDayOfMonth(ym) == ym * 100 + daysInMonth(ym)

(***************************************************************************)
(* Aggregation engine, App.tsx 370-390.                                    *)
(***************************************************************************)
\* tx.filter((t) => t.date.slice(0, 7) === month)
txOfMonth == SelectSeq(tx, LAMBDA t : MonthOf(t.date) = month)

\* the forEach of byAccountAllTime over a list: map[t.account] += t.amount
BalancesOf(list) ==
    LET F[i \in 0..Len(list)] ==
            IF i = 0 THEN [a \in Accounts |-> 0]
            ELSE [F[i - 1] EXCEPT ![list[i].account] = @ + list[i].amount]
    IN F[Len(list)]

\* a variant for comparison: balances computed over the records of the active month only
byAccountAllTime_OfMonth == BalancesOf(txOfMonth)

byAccountAllTime == BalancesOf(tx)

\* Object.values(map).reduce((acc, v) => acc + v, 0), in key order
SumValues(map) ==
    LET F[i \in 0..Len(ACCOUNTS)] ==
            IF i = 0 THEN 0 ELSE F[i - 1] + map[ACCOUNTS[i]]
    IN F[Len(ACCOUNTS)]

\* the forEach of totals over a list of records
MonthTotals(list) ==
    LET Step(acc, t) ==
            [ingresos |-> acc.ingresos
                 + (IF t.type = "Ingreso" /\ t.account # "TC Rappi" THEN t.amount ELSE 0),
             gastos |-> acc.gastos + (IF t.type = "Gasto" THEN Abs(t.amount) ELSE 0),
             ahorro |-> acc.ahorro
                 + (IF t.category = "Ahorro"
                    THEN (IF t.type = "Ingreso" THEN Abs(t.amount)
                          ELSE IF t.type = "Gasto" THEN -Abs(t.amount) ELSE 0)
                    ELSE 0)]
        F[i \in 0..Len(list)] ==
            IF i = 0 THEN [ingresos |-> 0, gastos |-> 0, ahorro |-> 0]
            ELSE Step(F[i - 1], list[i])
    IN F[Len(list)]

\* a variant for comparison: the credit card is blended into the overall balance
totals_CardInSaldo ==
    LET m == MonthTotals(txOfMonth)
    IN [ingresos |-> m.ingresos, gastos |-> m.gastos, ahorro |-> m.ahorro,
        saldoActual |-> SumValues(byAccountAllTime)]

\* a variant for comparison: income on the credit card counts as monthly income
totals_CardInIncome ==
    LET m == MonthTotals(txOfMonth)
        card == BalancesOf(SelectSeq(txOfMonth, LAMBDA t : t.type = "Ingreso"))["TC Rappi"]
    IN [ingresos |-> m.ingresos + card, gastos |-> m.gastos, ahorro |-> m.ahorro,
        saldoActual |-> SumValues(byAccountAllTime) - byAccountAllTime["TC Rappi"]]

totals ==
    LET m == MonthTotals(txOfMonth)
    IN [ingresos |-> m.ingresos, gastos |-> m.gastos, ahorro |-> m.ahorro,
        saldoActual |-> SumValues(byAccountAllTime) - byAccountAllTime["TC Rappi"]]

(***************************************************************************)
(* Grouped breakdown for the charts, App.tsx 418-450.                      *)
(***************************************************************************)
\* a variant for comparison: the type test is dropped, so incomes and transfers are charted
txForCharts_AnyType ==
    SelectSeq(tx, LAMBDA t :
        /\ t.date >= from /\ t.date <= to
        /\ (accFilter = "Todas" \/ t.account = accFilter))

txForCharts ==
    SelectSeq(tx, LAMBDA t :
        /\ t.date >= from /\ t.date <= to
        /\ t.type = "Gasto"
        /\ (accFilter = "Todas" \/ t.account = accFilter))

\* map.set(key, (map.get(key) || 0) + Math.abs(v)) on an insertion-ordered Map,
\* kept as a sequence of entries
MapAdd(map, key, v) ==
    IF \E i \in 1..Len(map) : map[i].name = key
    THEN [i \in 1..Len(map) |->
            IF map[i].name = key
            THEN [name |-> key, value |-> map[i].value + Abs(v)] ELSE map[i]]
    ELSE Append(map, [name |-> key, value |-> Abs(v)])

\* list.forEach((t) => add(key(t), t.amount)) into an empty Map; keys[i] is
\* the key of list[i]
GroupBy(list, keys) ==
    LET F[i \in 0..Len(list)] ==
            IF i = 0 THEN <<>> ELSE MapAdd(F[i - 1], keys[i], list[i].amount)
    IN F[Len(list)]

\* cm.forEach((v, k) => { if (v > val) { val = v; top = k; } }) from top = "", val = -1
TopKey(cm) ==
    LET F[i \in 0..Len(cm)] ==
            IF i = 0 THEN [top |-> "", val |-> -1]
            ELSE IF cm[i].value > F[i - 1].val
                 THEN [top |-> cm[i].name, val |-> cm[i].value] ELSE F[i - 1]
    IN F[Len(cm)].top

\* arr.sort((a, b) => b.value - a.value), stable: insertion of each entry
\* after the entries that do not compare greater than it
SortByValue(s) ==
    LET Insert(sorted, x) ==
            LET p == Cardinality({j \in 1..Len(sorted) : x.value - sorted[j].value <= 0})
            IN SubSeq(sorted, 1, p) \o <<x>> \o SubSeq(sorted, p + 1, Len(sorted))
        F[i \in 0..Len(s)] == IF i = 0 THEN <<>> ELSE Insert(F[i - 1], s[i])
    IN F[Len(s)]

\* x || "Otros"
OrOtros(x) == IF x = "" THEN "Otros" ELSE x

\* the drill-down category of the subcategory view: selectedCat || top category
DrillCat ==
    IF selectedCat # "" THEN selectedCat
    ELSE TopKey(GroupBy(txForCharts,
                        [i \in 1..Len(txForCharts) |-> txForCharts[i].category]))

\* the Map of analyticsData before sorting
AnalyticsMap ==
    LET n   == Len(txForCharts)
        sub == SelectSeq(txForCharts, LAMBDA t : t.category = DrillCat)
    IN IF view = "categoria"
       THEN GroupBy(txForCharts, [i \in 1..n |-> OrOtros(txForCharts[i].category)])
       ELSE IF view = "cuenta"
       THEN GroupBy(txForCharts, [i \in 1..n |-> txForCharts[i].account])
       ELSE GroupBy(sub, [i \in 1..Len(sub) |-> OrOtros(sub[i].subcategory)])

\* a variant for comparison: the sorted array is returned even when it is empty
analyticsData_NoPlaceholder == SortByValue(AnalyticsMap)

analyticsData ==
    LET arr == SortByValue(AnalyticsMap)
    IN IF Len(arr) # 0 THEN arr ELSE <<[name |-> "Sin datos", value |-> 0]>>

(***************************************************************************)
(* Filter/sort pipeline of the table, App.tsx 453-505.                     *)
(***************************************************************************)
PAGE_SIZE == 10

\* the characters of the text values the model uses (a string is atomic in
\* TLA+; this table spells each one out for the substring search)
Chars(s) ==
    CASE s = "" -> <<>>
      [] s = "Banco Davivienda" ->
           <<"B", "a", "n", "c", "o", " ", "D", "a", "v", "i", "v", "i", "e", "n", "d", "a">>
      [] s = "Banco de Bogotá" ->
           <<"B", "a", "n", "c", "o", " ", "d", "e", " ", "B", "o", "g", "o", "t", "á">>
      [] s = "Nequi" -> <<"N", "e", "q", "u", "i">>
      [] s = "Rappi" -> <<"R", "a", "p", "p", "i">>
      [] s = "Efectivo" -> <<"E", "f", "e", "c", "t", "i", "v", "o">>
      [] s = "TC Rappi" -> <<"T", "C", " ", "R", "a", "p", "p", "i">>
      [] s = "Ingresos" -> <<"I", "n", "g", "r", "e", "s", "o", "s">>
      [] s = "Deseos" -> <<"D", "e", "s", "e", "o", "s">>
      [] s = "Ahorro" -> <<"A", "h", "o", "r", "r", "o">>
      [] s = "Salario" -> <<"S", "a", "l", "a", "r", "i", "o">>
      [] s = "Ocio" -> <<"O", "c", "i", "o">>
      [] s = "General" -> <<"G", "e", "n", "e", "r", "a", "l">>
      [] s = "Entre cuentas" ->
           <<"E", "n", "t", "r", "e", " ", "c", "u", "e", "n", "t", "a", "s">>
      [] s = "cena" -> <<"c", "e", "n", "a">>

\* String.prototype.toLowerCase, letter by letter
LowerChar(c) ==
    CASE c = "A" -> "a" [] c = "B" -> "b" [] c = "C" -> "c" [] c = "D" -> "d"
      [] c = "E" -> "e" [] c = "G" -> "g" [] c = "I" -> "i" [] c = "N" -> "n"
      [] c = "O" -> "o" [] c = "R" -> "r" [] c = "S" -> "s" [] c = "T" -> "t"
      [] OTHER -> c

toLowerCase(cs) == [i \in 1..Len(cs) |-> LowerChar(cs[i])]

\* String.prototype.trim on typed text (the only white space typed is " ")
RECURSIVE trim(_)
trim(cs) ==
    IF cs = <<>> THEN cs
    ELSE IF Head(cs) = " " THEN trim(Tail(cs))
    ELSE IF cs[Len(cs)] = " " THEN trim(SubSeq(cs, 1, Len(cs) - 1))
    ELSE cs

\* hay.includes(needle)
includes(hay, needle) ==
    \E i \in 0..(Len(hay) - Len(needle)) : SubSeq(hay, i + 1, i + Len(needle)) = needle

\* the search predicate of filteredSorted for query q
MatchesSearch(t, q) ==
    \/ includes(toLowerCase(Chars(t.category)), q)
    \/ includes(toLowerCase(Chars(t.subcategory)), q)
    \/ includes(toLowerCase(Chars(t.account)), q)
    \/ includes(toLowerCase(Chars(t.note)), q)

\* a.account < b.account on the account names (UTF-16 order): -1, 0 or 1
AccountRank(a) == CHOOSE i \in 1..Len(ACCOUNTS) : ACCOUNTS[i] = a

Sign3(x, y) == IF x < y THEN -1 ELSE IF x > y THEN 1 ELSE 0

\* the comparator of items.sort in filteredSorted
TableCmp(a, b) ==
    LET cmp == IF sortKey = "fecha"
               THEN (IF a.date # b.date THEN Sign3(a.date, b.date)
                     ELSE Sign3(a.time, b.time))
               ELSE Sign3(AccountRank(a.account), AccountRank(b.account))
    IN IF sortDir = "Asc" THEN cmp ELSE -cmp

\* the records that pass the four filters of the table, in store order
Filtered ==
    LET s1 == IF search # <<>>
              THEN SelectSeq(tx, LAMBDA t : MatchesSearch(t, toLowerCase(trim(search))))
              ELSE tx
        s2 == IF filterType # "Todos"
              THEN SelectSeq(s1, LAMBDA t : t.type = filterType) ELSE s1
        s3 == IF filterAccount # "Todos"
              THEN SelectSeq(s2, LAMBDA t : t.account = filterAccount) ELSE s2
        s4 == IF filterDateFrom # 0
              THEN SelectSeq(s3, LAMBDA t : t.date >= filterDateFrom) ELSE s3
    IN IF filterDateTo # 0
       THEN SelectSeq(s4, LAMBDA t : t.date <= filterDateTo) ELSE s4

\* items.sort(comparator), stable: insertion of each record after the records
\* that do not compare greater than it
SortTable(s) ==
    LET Insert(sorted, x) ==
            LET p == Cardinality({j \in 1..Len(sorted) : TableCmp(sorted[j], x) <= 0})
            IN SubSeq(sorted, 1, p) \o <<x>> \o SubSeq(sorted, p + 1, Len(sorted))
        F[i \in 0..Len(s)] == IF i = 0 THEN <<>> ELSE Insert(F[i - 1], s[i])
    IN F[Len(s)]

filteredSorted == SortTable(Filtered)

\* Math.ceil(n / PAGE_SIZE)
CeilDiv(n, d) == (n + d - 1) \div d

\* a variant for comparison: the division rounds down, so a last partial page is not counted
pageCount_Floor == Max(1, Len(filteredSorted) \div PAGE_SIZE)

pageCount == Max(1, CeilDiv(Len(filteredSorted), PAGE_SIZE))

\* filteredSorted.slice((page - 1) * PAGE_SIZE, page * PAGE_SIZE)
Slice(s, lo, hi) == SubSeq(s, Min(lo, Len(s)) + 1, Min(hi, Len(s)))

\* the rows the table shows on page k
PageRowsAt(k) == Slice(filteredSorted, (k - 1) * PAGE_SIZE, k * PAGE_SIZE)

pageRows == PageRowsAt(page)

(***************************************************************************)
(* Effects that run after a handler, App.tsx 411-416 and 549-565.          *)
(***************************************************************************)
\* monthsWithData as a set: the code sorts it and only tests membership and
\* takes its last (greatest) element
monthsWithData(list) ==
    IF list = <<>> THEN {MonthOf(Today)}
    ELSE {MonthOf(list[i].date) : i \in 1..Len(list)}

\* a variant for comparison: no effect follows monthsWithData
MonthAfter_Keep(list, m) == m

\* the effect on [monthsWithData]: fall back to the latest populated month
MonthAfter(list, m) ==
    IF m \in monthsWithData(list) THEN m
    ELSE CHOOSE x \in monthsWithData(list) : \A y \in monthsWithData(list) : y <= x

\* the effect on [month, timeMode]: in "mes" mode the range follows the month
RangeAfter(m, tm, f, t) ==
    IF (m # month \/ tm # timeMode) /\ tm = "mes"
    THEN <<firstDayOfMonth(m), lastDayOfMonth(m)>>
    ELSE <<f, t>>

\* JSON.stringify of a record list, of the tag taxonomy and of the budget:
\* the values the application builds hold only strings, finite numbers, arrays
\* and objects with every field present, so the text denotes the same value
JSONstringify(kind, v) == [kind |-> kind, v |-> v]

\* JSON.parse of such a text
JSONparse(text) == text.v

\* a variant for comparison: the month blob is written once and never again
StorageAfter_MonthOnce(list, m, tg, bd) ==
    [tx     |-> IF list # tx THEN JSONstringify("array", list) ELSE storage.tx,
     tags   |-> IF tg # tags THEN JSONstringify("object", tg) ELSE storage.tags,
     month  |-> storage.month,
     budget |-> IF bd # budget THEN JSONstringify("object", bd) ELSE storage.budget]

\* localStorage once the effects on [tx], [tags], [month] and [budget] have
\* run: an effect rewrites its blob when its state slice was set anew
StorageAfter(list, m, tg, bd) ==
    [tx     |-> IF list # tx THEN JSONstringify("array", list) ELSE storage.tx,
     tags   |-> IF tg # tags THEN JSONstringify("object", tg) ELSE storage.tags,
     month  |-> IF m # month THEN m ELSE storage.month,
     budget |-> IF bd # budget THEN JSONstringify("object", bd) ELSE storage.budget]

\* setTx(list) followed by the effects on the month, the range and the storage
SetTxAndSettle(list) ==
    /\ tx' = list
    /\ month' = MonthAfter(list, month)
    /\ from' = RangeAfter(MonthAfter(list, month), timeMode, from, to)[1]
    /\ to' = RangeAfter(MonthAfter(list, month), timeMode, from, to)[2]
    /\ storage' = StorageAfter(list, MonthAfter(list, month), tags, budget)

(***************************************************************************)
(* State after construction, App.tsx 306-345, 404-409, 452-462.            *)
(***************************************************************************)
\* defaultTags
defaultTags ==
    ("Ingresos" :> <<"Salario", "Freelance", "Inversión", "Dividendos", "Otros">>)
    @@ ("Gastos Básicos" :> <<"Vivienda", "Alimentación", "Transporte", "Servicios">>)
    @@ ("Deseos" :> <<"Ropa", "Tecnología", "Viajes", "Restaurantes", "Ocio">>)
    @@ ("Ahorro" :> <<"General", "Emergencias", "Objetivos">>)

\* { basicos: 0, deseos: 0, ahorro: 0 }
ZeroBudget == [basicos |-> 0, deseos |-> 0, ahorro |-> 0]

\* the hosted tables with no row of the user
EmptyRemote == [tx |-> {}, settings |-> <<>>, goals |-> {}]

\* the four blobs as the effects write them for a given state
StorageOf(list, m, tg, bd) ==
    [tx     |-> JSONstringify("array", list),
     tags   |-> JSONstringify("object", tg),
     month  |-> m,
     budget |-> JSONstringify("object", bd)]

InitForm ==
    [type |-> "Ingreso", account |-> "Banco Davivienda", toAccount |-> "",
     date |-> Today, amountRaw |-> <<>>, category |-> "Ingresos",
     subcategory |-> "Salario", note |-> ""]

InitTrf == [from |-> "Nequi", to |-> "Efectivo", date |-> Today, amountRaw |-> <<>>]

\* the record list read from local storage gets the ids 1..n
WithIds(list) == [i \in 1..Len(list) |-> [list[i] EXCEPT !.id = i]]

\* the local state once the component has mounted with the stored list and month
InitLocal(list, m0) ==
    /\ tx = WithIds(list)
    /\ nextId = Len(list) + 1
    /\ month = MonthAfter(list, m0)
    /\ form = InitForm
    /\ trf = InitTrf
    /\ editingTx = NoTx
    /\ view = "categoria"
    /\ selectedCat = ""
    /\ accFilter = "Todas"
    /\ timeMode = "mes"
    /\ from = firstDayOfMonth(MonthAfter(list, m0))
    /\ to = lastDayOfMonth(MonthAfter(list, m0))
    /\ search = <<>>
    /\ sortKey = "fecha"
    /\ sortDir = "Desc"
    /\ page = 1
    /\ selectedIds = {}
    /\ filterDateFrom = 0
    /\ filterDateTo = 0
    /\ filterType = "Todos"
    /\ filterAccount = "Todos"
    /\ tags = defaultTags
    /\ budget = ZeroBudget
    /\ goals = <<>>
    /\ storage = StorageOf(WithIds(list), MonthAfter(list, m0), defaultTags, ZeroBudget)
    /\ download = JSONstringify("none", <<>>)
    /\ cloudBusy = FALSE
    /\ cloudMsg = ""
    /\ timers = 0

\* the state once the component has mounted with the stored list and month,
\* signed out and with no cloud operation in flight
InitWith(list, m0) ==
    /\ InitLocal(list, m0)
    /\ userEmail = ""
    /\ session = ""
    /\ remote = EmptyRemote
    /\ procs = <<>>

\* dates and times of day the model draws from
Dates == {20240110, 20240220}

Times == {93000, 93001}

(***************************************************************************)
(* The amount field of the capture form (MoneyInput, App.tsx 2131-2164).   *)
(***************************************************************************)
\* onChange after a keystroke that appends c to the field
MoneyInputType ==
    \E c \in TypedChars :
        /\ Len(form.amountRaw) < MaxLen
        /\ form' = [form EXCEPT !.amountRaw = sanitizeTyping(form.amountRaw \o <<c>>)]
        /\ UNCHANGED <<tx, month, nextId, trf, editingTx, chartVars, tableVars,
                       storage, restVars>>

\* onChange after a keystroke that deletes the last character
MoneyInputErase ==
    /\ form.amountRaw # <<>>
    /\ form' = [form EXCEPT !.amountRaw =
                    sanitizeTyping(SubSeq(form.amountRaw, 1, Len(form.amountRaw) - 1))]
    /\ UNCHANGED <<tx, month, nextId, trf, editingTx, chartVars, tableVars,
                   storage, restVars>>

\* onBlur: the field shows the canonical string
MoneyInputBlur ==
    /\ form' = [form EXCEPT !.amountRaw = normalizeMoneyInput(form.amountRaw).raw]
    /\ UNCHANGED <<tx, month, nextId, trf, editingTx, chartVars, tableVars,
                   storage, restVars>>

InitMoney == InitWith(<<>>, MonthOf(Today))

NextMoney == MoneyInputType \/ MoneyInputErase \/ MoneyInputBlur

SpecMoney == InitMoney /\ [][NextMoney]_vars

\* C1: normalizeMoneyInput is idempotent on its own output: normalizing the
\* canonical string of any input gives the numeric value the input gave.
C1_Idempotent ==
    LET r == normalizeMoneyInput(form.amountRaw)
    IN normalizeMoneyInput(r.raw).value = r.value

(***************************************************************************)
(* Header month select, App.tsx 794-804.                                   *)
(***************************************************************************)
\* setMonth(e.target.value): the options are monthsWithData
SetMonth ==
    \E m \in monthsWithData(tx) :
        /\ month' = m
        /\ from' = RangeAfter(m, timeMode, from, to)[1]
        /\ to' = RangeAfter(m, timeMode, from, to)[2]
        /\ storage' = StorageAfter(tx, m, tags, budget)
        /\ UNCHANGED <<tx, nextId, formVars, view, selectedCat, accFilter, timeMode,
                       tableVars, restVars>>

(***************************************************************************)
(* Monthly totals and balances over bounded record lists.                  *)
(***************************************************************************)
\* longest record list drawn as the stored list
MaxRecs == 2

TotalsRecords ==
    [id : {0}, type : TxTypes, account : {"Nequi", "TC Rappi"}, toAccount : {""},
     date : Dates, time : {93000}, amount : {-2 * Unit, 3 * Unit},
     category : {"Deseos", "Ahorro"}, subcategory : {"General"}, note : {""}]

InitTotals == \E list \in SeqsUpTo(TotalsRecords, MaxRecs) : InitWith(list, MonthOf(Today))

NextTotals == SetMonth

SpecTotals == InitTotals /\ [][NextTotals]_vars

\* sum of amount, and of |amount|, over a list of records
RECURSIVE SumAmount(_)
SumAmount(list) == IF list = <<>> THEN 0 ELSE Head(list).amount + SumAmount(Tail(list))

RECURSIVE SumAbsAmount(_)
SumAbsAmount(list) ==
    IF list = <<>> THEN 0 ELSE Abs(Head(list).amount) + SumAbsAmount(Tail(list))

\* the records of the store dated in the active month
InMonth == SelectSeq(tx, LAMBDA t : t.date \div 100 = month)

\* C2: for every account a, byAccountAllTime[a] is the sum of amount over all
\* records of account a, whatever their date and whatever the active month.
C2_BalancePerAccount ==
    \A a \in Accounts :
        byAccountAllTime[a] = SumAmount(SelectSeq(tx, LAMBDA t : t.account = a))

\* a record outside the active month carries a balance
C2_Witness ==
    \E i \in 1..Len(tx) :
        /\ MonthOf(tx[i].date) # month
        /\ byAccountAllTime[tx[i].account] # 0

\* C3: saldoActual is the sum of the balances of the accounts other than
\* "TC Rappi", which is the sum of amount over the records not on "TC Rappi".
C3_OverallBalance ==
    /\ totals.saldoActual
         = SumValues([a \in Accounts |->
                        IF a = "TC Rappi" THEN 0 ELSE byAccountAllTime[a]])
    /\ totals.saldoActual = SumAmount(SelectSeq(tx, LAMBDA t : t.account # "TC Rappi"))

\* the card and another account both carry a balance
C3_Witness ==
    /\ byAccountAllTime["TC Rappi"] # 0
    /\ byAccountAllTime["Nequi"] # 0

\* C4: over the records of the active month, ingresos is the sum of amount of
\* the Ingreso records not on "TC Rappi", gastos the sum of |amount| of the
\* Gasto records, ahorro the sum of |amount| of the Ingreso records of category
\* Ahorro minus that of the Gasto records of category Ahorro; removing the
\* Transferencia records changes none of the three.
C4_MonthlyTotals ==
    /\ totals.ingresos
         = SumAmount(SelectSeq(InMonth,
               LAMBDA t : t.type = "Ingreso" /\ t.account # "TC Rappi"))
    /\ totals.gastos = SumAbsAmount(SelectSeq(InMonth, LAMBDA t : t.type = "Gasto"))
    /\ totals.ahorro
         = SumAbsAmount(SelectSeq(InMonth,
               LAMBDA t : t.type = "Ingreso" /\ t.category = "Ahorro"))
           - SumAbsAmount(SelectSeq(InMonth,
               LAMBDA t : t.type = "Gasto" /\ t.category = "Ahorro"))
    /\ LET noTrf == MonthTotals(SelectSeq(InMonth, LAMBDA t : t.type # "Transferencia"))
       IN /\ noTrf.ingresos = totals.ingresos
          /\ noTrf.gastos = totals.gastos
          /\ noTrf.ahorro = totals.ahorro

\* the month holds an income on the card and a transfer in category Ahorro
C4_Witness ==
    /\ \E i \in 1..Len(InMonth) :
          InMonth[i].type = "Ingreso" /\ InMonth[i].account = "TC Rappi"
    /\ \E i \in 1..Len(InMonth) :
          InMonth[i].type = "Transferencia" /\ InMonth[i].category = "Ahorro"

(***************************************************************************)
(* Chart controls, App.tsx 936-1100.                                       *)
(***************************************************************************)
SetView ==
    \E v \in {"categoria", "subcategoria", "cuenta"} :
        /\ view' = v
        /\ UNCHANGED <<tx, month, nextId, formVars, selectedCat, accFilter, timeMode,
                       from, to, tableVars, storage, restVars>>

\* a click on an entry of the pie or bar chart in the category view
ClickSlice ==
    \E i \in 1..Len(analyticsData) :
        /\ view = "categoria"
        /\ analyticsData[i].name # ""
        /\ selectedCat' = analyticsData[i].name
        /\ view' = "subcategoria"
        /\ UNCHANGED <<tx, month, nextId, formVars, accFilter, timeMode, from, to,
                       tableVars, storage, restVars>>

\* account options the model picks in the chart's account select
ChartAccountOptions == {"Todas", "Nequi"}

SetAccFilter ==
    \E a \in ChartAccountOptions :
        /\ accFilter' = a
        /\ UNCHANGED <<tx, month, nextId, formVars, view, selectedCat, timeMode, from,
                       to, tableVars, storage, restVars>>

SetTimeMode ==
    \E tm \in {"mes", "rango"} :
        /\ timeMode' = tm
        /\ from' = RangeAfter(month, tm, from, to)[1]
        /\ to' = RangeAfter(month, tm, from, to)[2]
        /\ UNCHANGED <<tx, month, nextId, formVars, view, selectedCat, accFilter,
                       tableVars, storage, restVars>>

\* the two date inputs are shown in "rango" mode only
SetFrom ==
    \E d \in Dates :
        /\ timeMode = "rango"
        /\ from' = d
        /\ UNCHANGED <<tx, month, nextId, formVars, view, selectedCat, accFilter,
                       timeMode, to, tableVars, storage, restVars>>

SetTo ==
    \E d \in Dates :
        /\ timeMode = "rango"
        /\ to' = d
        /\ UNCHANGED <<tx, month, nextId, formVars, view, selectedCat, accFilter,
                       timeMode, from, tableVars, storage, restVars>>

\* "Limpiar filtros" of the charts
ChartLimpiar ==
    /\ view' = "categoria"
    /\ selectedCat' = ""
    /\ accFilter' = "Todas"
    /\ timeMode' = "mes"
    /\ from' = firstDayOfMonth(month)
    /\ to' = lastDayOfMonth(month)
    /\ UNCHANGED <<tx, month, nextId, formVars, tableVars, storage, restVars>>

(***************************************************************************)
(* Grouped breakdown over bounded record lists.                            *)
(***************************************************************************)
ChartRecords ==
    [id : {0}, type : {"Gasto"}, account : {"Nequi", "Efectivo"}, toAccount : {""},
     date : Dates, time : {93000}, amount : {-2 * Unit},
     category : {"Deseos"}, subcategory : {"Ocio"}, note : {""}]
    \cup
    [id : {0}, type : {"Gasto"}, account : {"Nequi"}, toAccount : {""},
     date : {20240220}, time : {93000}, amount : {-3 * Unit},
     category : {"Ahorro"}, subcategory : {"Ocio", ""}, note : {""}]
    \cup
    [id : {0}, type : {"Gasto"}, account : {"Nequi"}, toAccount : {""},
     date : {20240220}, time : {93000}, amount : {-3 * Unit},
     category : {""}, subcategory : {""}, note : {""}]
    \cup
    [id : {0}, type : {"Ingreso", "Transferencia"}, account : {"Nequi"},
     toAccount : {""}, date : {20240220}, time : {93000}, amount : {3 * Unit},
     category : {"Deseos"}, subcategory : {"Ocio"}, note : {""}]

InitCharts == \E list \in SeqsUpTo(ChartRecords, MaxRecs) : InitWith(list, MonthOf(Today))

NextCharts ==
    \/ SetView
    \/ ClickSlice
    \/ SetAccFilter
    \/ SetTimeMode
    \/ SetFrom
    \/ SetTo
    \/ ChartLimpiar

SpecCharts == InitCharts /\ [][NextCharts]_vars

\* the Expense records in the range [from, to] on the selected account
Matching ==
    SelectSeq(tx, LAMBDA t :
        /\ t.type = "Gasto"
        /\ from <= t.date /\ t.date <= to
        /\ (accFilter = "Todas" \/ t.account = accFilter))

Placeholder == <<[name |-> "Sin datos", value |-> 0]>>

\* C5: the grouped breakdown is never empty, and when no Expense record
\* matches it is exactly the placeholder entry with value 0.
C5_NeverEmpty ==
    /\ Len(analyticsData) >= 1
    /\ Matching = <<>> => analyticsData = Placeholder

\* the store holds an Expense record, but a chosen range leaves none matching
C5_Witness ==
    /\ timeMode = "rango"
    /\ \E i \in 1..Len(tx) : tx[i].type = "Gasto"
    /\ Matching = <<>>
    /\ analyticsData = Placeholder

\* the group key of a record under the current view
GroupKey(t) ==
    IF view = "categoria" THEN (IF t.category = "" THEN "Otros" ELSE t.category)
    ELSE IF view = "cuenta" THEN t.account
    ELSE (IF t.subcategory = "" THEN "Otros" ELSE t.subcategory)

\* the breakdown of the record list M: one entry per group key of M, each the
\* sum of |amount| of the records of M with that key, in non-increasing order
IsBreakdownOf(M) ==
    /\ {analyticsData[i].name : i \in 1..Len(analyticsData)}
         = {GroupKey(M[i]) : i \in 1..Len(M)}
    /\ \A i, j \in 1..Len(analyticsData) :
          analyticsData[i].name = analyticsData[j].name => i = j
    /\ \A i \in 1..Len(analyticsData) :
          analyticsData[i].value
            = SumAbsAmount(SelectSeq(M, LAMBDA t : GroupKey(t) = analyticsData[i].name))
    /\ \A i \in 1..(Len(analyticsData) - 1) :
          analyticsData[i].value >= analyticsData[i + 1].value

\* C6 as stated: in every view the breakdown has one entry per group key of
\* the matching Expense records (the placeholder when none matches).
C6_AsStated ==
    IF Matching = <<>> THEN analyticsData = Placeholder ELSE IsBreakdownOf(Matching)

\* the drill-down category: the selected one or, failing that, the category of
\* the first matching record whose category has the largest expense total
CatTotal(c) == SumAbsAmount(SelectSeq(Matching, LAMBDA t : t.category = c))

DrillDown ==
    IF selectedCat # "" THEN selectedCat
    ELSE IF Matching = <<>> THEN ""
    ELSE LET best == {i \in 1..Len(Matching) :
                        \A j \in 1..Len(Matching) :
                            CatTotal(Matching[j].category) <= CatTotal(Matching[i].category)}
         IN Matching[CHOOSE i \in best : \A j \in best : i <= j].category

\* the records that contribute to the breakdown under the current view
Contributing ==
    IF view = "subcategoria"
    THEN SelectSeq(Matching, LAMBDA t : t.category = DrillDown)
    ELSE Matching

\* C6 (amended): the breakdown has one entry per group key of the contributing
\* records, which are the matching Expense records in the category and account
\* views and those of the drill-down category in the subcategory view; each
\* value is the sum of |amount| under that key, in non-increasing order; with
\* no contributing record the breakdown is the placeholder.
C6_Grouped ==
    IF Contributing = <<>> THEN analyticsData = Placeholder
    ELSE IsBreakdownOf(Contributing)

\* matching expenses of two categories in the subcategory view, one of them
\* in the drill-down category
C6_Witness ==
    /\ view = "subcategoria"
    /\ Len(Contributing) >= 1
    /\ Len(Matching) > Len(Contributing)

(***************************************************************************)
(* Table controls, App.tsx 1312-1381 and 1467-1479; row deletion, 531-547. *)
(***************************************************************************)
\* text typed into the search box
SearchInputs == {<<>>, <<" ", "N", "e">>, <<"c", "e", "n", "a">>}

SetSearch ==
    \E q \in SearchInputs :
        /\ search' = q
        /\ UNCHANGED <<tx, month, nextId, formVars, chartVars, sortKey, sortDir, page,
                       selectedIds, filterDateFrom, filterDateTo, filterType,
                       filterAccount, storage, restVars>>

SetSortKey ==
    \E k \in {"fecha", "cuenta"} :
        /\ sortKey' = k
        /\ UNCHANGED <<tx, month, nextId, formVars, chartVars, search, sortDir, page,
                       selectedIds, filterDateFrom, filterDateTo, filterType,
                       filterAccount, storage, restVars>>

SetSortDir ==
    \E d \in {"Asc", "Desc"} :
        /\ sortDir' = d
        /\ UNCHANGED <<tx, month, nextId, formVars, chartVars, search, sortKey, page,
                       selectedIds, filterDateFrom, filterDateTo, filterType,
                       filterAccount, storage, restVars>>

\* options the model picks in the "Tipo" select
FilterTypeOptions == {"Todos", "Gasto"}

SetFilterType ==
    \E v \in FilterTypeOptions :
        /\ filterType' = v
        /\ UNCHANGED <<tx, month, nextId, formVars, chartVars, search, sortKey, sortDir,
                       page, selectedIds, filterDateFrom, filterDateTo, filterAccount,
                       storage, restVars>>

\* options the model picks in the "Cuenta" select: ["Todas", ...ACCOUNTS]
FilterAccountOptions == {"Todas", "Nequi"}

SetFilterAccount ==
    \E v \in FilterAccountOptions :
        /\ filterAccount' = v
        /\ UNCHANGED <<tx, month, nextId, formVars, chartVars, search, sortKey, sortDir,
                       page, selectedIds, filterDateFrom, filterDateTo, filterType,
                       storage, restVars>>

SetFilterDateFrom ==
    \E d \in Dates \cup {0} :
        /\ filterDateFrom' = d
        /\ UNCHANGED <<tx, month, nextId, formVars, chartVars, search, sortKey, sortDir,
                       page, selectedIds, filterDateTo, filterType, filterAccount,
                       storage, restVars>>

SetFilterDateTo ==
    \E d \in Dates \cup {0} :
        /\ filterDateTo' = d
        /\ UNCHANGED <<tx, month, nextId, formVars, chartVars, search, sortKey, sortDir,
                       page, selectedIds, filterDateFrom, filterType, filterAccount,
                       storage, restVars>>

\* the "Limpiar" button of the table filters
TableLimpiar ==
    /\ search' = <<>>
    /\ filterDateFrom' = 0
    /\ filterDateTo' = 0
    /\ filterType' = "Todos"
    /\ filterAccount' = "Todas"
    /\ UNCHANGED <<tx, month, nextId, formVars, chartVars, sortKey, sortDir, page,
                   selectedIds, storage, restVars>>

\* setPage((p) => Math.min(pageCount, p + 1))
NextPage ==
    /\ page' = Min(pageCount, page + 1)
    /\ UNCHANGED <<tx, month, nextId, formVars, chartVars, search, sortKey, sortDir,
                   selectedIds, filterDateFrom, filterDateTo, filterType, filterAccount,
                   storage, restVars>>

\* setPage((p) => Math.max(1, p - 1))
PrevPage ==
    /\ page' = Max(1, page - 1)
    /\ UNCHANGED <<tx, month, nextId, formVars, chartVars, search, sortKey, sortDir,
                   selectedIds, filterDateFrom, filterDateTo, filterType, filterAccount,
                   storage, restVars>>

\* most row deletions in one run of the model
MaxDeletes == 1

\* most asynchronous handlers in flight at once
MaxProcs == 2

\* most pending callbacks that clear the status message the model counts:
\* further ones are not told apart
MaxTimers == 1

\* a variant for comparison: the message is set and no callback clears it
SetCloudMsg_NoTimer(text) ==
    /\ cloudMsg' = text
    /\ timers' = timers

\* setCloudMsg(text); setTimeout(() => setCloudMsg(null), ms)
SetCloudMsg(text) ==
    /\ cloudMsg' = text
    /\ timers' = Min(timers + 1, MaxTimers)

\* an asynchronous handler waiting at the await named pc; tx, tags and budget
\* are the values its closure captured, ids the ids it was called with; r0 (for
\* a sync, the remote rows when it started) and solo (nothing else was in flight
\* from its start until now) are observations used to state properties
NewProc(kind, pc) ==
    [kind |-> kind, pc |-> pc, tx |-> <<>>, tags |-> defaultTags, budget |-> ZeroBudget,
     ids |-> {}, r0 |-> IF kind = "sync" THEN remote.tx ELSE {}, solo |-> TRUE]

\* the handlers in flight once p has started
Spawn(ps, p) ==
    [i \in 1..Len(ps) |-> [ps[i] EXCEPT !.solo = FALSE]]
    \o <<[p EXCEPT !.solo = (ps = <<>>)]>>

\* the handlers in flight once the i-th has finished
Finish(ps, i) == SubSeq(ps, 1, i - 1) \o SubSeq(ps, i + 1, Len(ps))

\* if (userEmail) { await deleteTxCloud(ids) }: the remote delete is started
\* only with a signed-in user
AfterDelete(ids) ==
    IF userEmail # ""
    THEN /\ Len(procs) < MaxProcs
         /\ procs' = Spawn(procs, [NewProc("delete", "deleteTx") EXCEPT !.ids = ids])
    ELSE procs' = procs

\* records deleted so far: the ids issued here that the store no longer holds
Deleted == Cardinality({k \in 1..(nextId - 1) : \A j \in DOMAIN tx : tx[j].id # k})

\* deleteOne(r.id) from the delete button of a row on the current page
deleteOne ==
    \E i \in 1..Len(pageRows) :
        /\ Deleted < MaxDeletes
        /\ SetTxAndSettle(SelectSeq(tx, LAMBDA r : r.id # pageRows[i].id))
        /\ selectedIds' = selectedIds \ {pageRows[i].id}
        /\ AfterDelete({pageRows[i].id})
        /\ UNCHANGED <<nextId, formVars, view, selectedCat, accFilter, timeMode, search,
                       sortKey, sortDir, page, filterDateFrom, filterDateTo, filterType,
                       filterAccount, prefVars, download, goals, userEmail, session,
                       cloudBusy, remote, msgVars>>

\* the checkbox of a row on the current page
toggleSelect ==
    \E i \in 1..Len(pageRows) :
        /\ selectedIds' = IF pageRows[i].id \in selectedIds
                          THEN selectedIds \ {pageRows[i].id}
                          ELSE selectedIds \cup {pageRows[i].id}
        /\ UNCHANGED <<tx, month, nextId, formVars, chartVars, search, sortKey, sortDir,
                       page, filterDateFrom, filterDateTo, filterType, filterAccount,
                       storage, restVars>>

\* a variant for comparison: deleting the selection also drops every transfer
\* record that shares date and time with a deleted transfer record
deleteSelected_Cascade ==
    LET gone(r) == \/ r.id \in selectedIds
                   \/ \E s \in 1..Len(tx) :
                         /\ tx[s].id \in selectedIds
                         /\ tx[s].type = "Transferencia" /\ r.type = "Transferencia"
                         /\ tx[s].date = r.date /\ tx[s].time = r.time
    IN IF selectedIds = {} THEN UNCHANGED vars
       ELSE /\ Deleted < MaxDeletes
            /\ SetTxAndSettle(SelectSeq(tx, LAMBDA r : ~gone(r)))
            /\ selectedIds' = {}
            /\ AfterDelete(selectedIds)
            /\ UNCHANGED <<nextId, formVars, view, selectedCat, accFilter, timeMode,
                           search, sortKey, sortDir, page, filterDateFrom, filterDateTo,
                           filterType, filterAccount, prefVars, download, goals,
                           userEmail, session, cloudBusy, remote, msgVars>>

\* deleteSelected from the button above the table
deleteSelected ==
    IF selectedIds = {} THEN UNCHANGED vars
    ELSE /\ Deleted < MaxDeletes
         /\ SetTxAndSettle(SelectSeq(tx, LAMBDA r : r.id \notin selectedIds))
         /\ selectedIds' = {}
         /\ AfterDelete(selectedIds)
         /\ UNCHANGED <<nextId, formVars, view, selectedCat, accFilter, timeMode,
                        search, sortKey, sortDir, page, filterDateFrom, filterDateTo,
                        filterType, filterAccount, prefVars, download, goals,
                        userEmail, session, cloudBusy, remote, msgVars>>

(***************************************************************************)
(* The table filters over bounded record lists.                            *)
(***************************************************************************)
FilterRecords ==
    [id : {0}, type : {"Ingreso", "Gasto"}, account : {"Nequi", "Efectivo"},
     toAccount : {""}, date : Dates, time : {93000}, amount : {2 * Unit},
     category : {"Deseos"}, subcategory : {"Ocio"}, note : {"", "cena"}]

InitFilter == \E list \in SeqsUpTo(FilterRecords, MaxRecs) : InitWith(list, MonthOf(Today))

NextFilter ==
    \/ SetSearch
    \/ SetFilterType
    \/ SetFilterAccount
    \/ SetFilterDateFrom
    \/ SetFilterDateTo
    \/ TableLimpiar

SpecFilter == InitFilter /\ [][NextFilter]_vars

\* the account filter is at its "all" setting: the initial value of the state
\* or the option "Todas" of the select (which "Limpiar" also sets)
AccountFilterIsAll == filterAccount \in {"Todos", "Todas"}

\* a record satisfies every active predicate of the table
PassesFilters(t) ==
    /\ search = <<>> \/ MatchesSearch(t, toLowerCase(trim(search)))
    /\ filterType = "Todos" \/ t.type = filterType
    /\ AccountFilterIsAll \/ t.account = filterAccount
    /\ filterDateFrom = 0 \/ t.date >= filterDateFrom
    /\ filterDateTo = 0 \/ t.date <= filterDateTo

\* C9: the filtered list holds exactly the records that satisfy every active
\* predicate, a predicate at its "all"/empty setting excluding nothing; so in
\* the initial state, with the account option "Todas" and after "Limpiar"
\* every record of the store is listed.
C9_FilteredExactly ==
    /\ Len(filteredSorted) = Len(SelectSeq(tx, PassesFilters))
    /\ {filteredSorted[i] : i \in 1..Len(filteredSorted)}
         = {tx[i] : i \in {j \in 1..Len(tx) : PassesFilters(tx[j])}}

(***************************************************************************)
(* Pagination of the table over stores of up to MaxRows records.           *)
(***************************************************************************)
\* most records in the stored list of the pagination model
MaxRows == 21

\* the i-th stored record: types, accounts and dates alternate, times differ
TableRow(i) ==
    [id |-> i,
     type |-> IF i % 2 = 0 THEN "Ingreso" ELSE "Gasto",
     account |-> IF i % 3 = 0 THEN "Nequi" ELSE "Efectivo",
     toAccount |-> "",
     date |-> IF i % 4 = 0 THEN 20240110 ELSE 20240220,
     time |-> 93000 + i,
     amount |-> IF i % 2 = 0 THEN 2 * Unit ELSE -2 * Unit,
     category |-> "Deseos", subcategory |-> "Ocio", note |-> ""]

InitTable == \E n \in 0..MaxRows : InitWith([i \in 1..n |-> TableRow(i)], MonthOf(Today))

NextTable ==
    \/ NextPage
    \/ PrevPage
    \/ deleteOne
    \/ SetFilterAccount
    \/ TableLimpiar
    \/ SetSortDir

SpecTable == InitTable /\ [][NextTable]_vars

\* C7: in every reachable state of the table view the page index is within
\* the valid range, 1 <= page <= pageCount.
C7_PageInRange == 1 <= page /\ page <= pageCount

\* the pages 1..k of the table laid end to end
RECURSIVE PagesUpTo(_)
PagesUpTo(k) == IF k = 0 THEN <<>> ELSE PagesUpTo(k - 1) \o PageRowsAt(k)

\* pageCount is max(1, ceil(n / 10)); page k shows rows (k-1)*10+1 .. min(k*10, n)
\* of the sorted list, so the pages 1..pageCount partition it
C8_Pages ==
    LET n == Len(filteredSorted)
    IN /\ pageCount >= 1
       /\ pageCount * PAGE_SIZE >= n
       /\ pageCount > 1 => (pageCount - 1) * PAGE_SIZE < n
       /\ \A k \in 1..pageCount :
             PageRowsAt(k) = [i \in 1..(Min(k * PAGE_SIZE, n) - (k - 1) * PAGE_SIZE) |->
                                 filteredSorted[(k - 1) * PAGE_SIZE + i]]
       /\ PagesUpTo(pageCount) = filteredSorted

\* the next-page action never moves the page index above pageCount, the
\* previous-page action never moves it below 1 (neither button changes the
\* store or a filter, so pageCount is the same before and after the step)
C8_Buttons ==
    /\ NextPage => page' <= pageCount
    /\ PrevPage => page' >= 1

\* C8: for a filtered list of n records pageCount = max(1, ceil(n / 10)), the
\* page buttons keep the index at or below pageCount and at or above 1, and
\* the pages 1..pageCount partition the sorted list into runs of 10.
C8_Pagination == []C8_Pages /\ [][C8_Buttons]_vars

\* the last of three pages is shown and is a partial page
C8_Witness ==
    /\ pageCount = 3
    /\ page = 3
    /\ Len(pageRows) = Len(filteredSorted) - 2 * PAGE_SIZE
    /\ Len(pageRows) < PAGE_SIZE


(***************************************************************************)
(* The transfer form and handleTransfer, App.tsx 340-359 and 1117-1150.    *)
(***************************************************************************)
\* accounts offered by the two selects of the transfer form
TrfAccounts == {"Nequi", "Efectivo", "TC Rappi"}

\* texts entered in the amount field of the transfer form
TrfInputs == {<<>>, <<"0">>, <<"-", "1", ",", "7">>}

\* the "Desde" select: any account, the destination is left as it is
SetTrfFrom ==
    \E a \in TrfAccounts :
        /\ trf' = [trf EXCEPT !.from = a]
        /\ UNCHANGED <<tx, month, nextId, form, editingTx, chartVars, tableVars,
                       storage, restVars>>

\* the "Hacia" select offers ACCOUNTS.filter((a) => a !== trf.from)
SetTrfTo ==
    \E a \in TrfAccounts \ {trf.from} :
        /\ trf' = [trf EXCEPT !.to = a]
        /\ UNCHANGED <<tx, month, nextId, form, editingTx, chartVars, tableVars,
                       storage, restVars>>

SetTrfDate ==
    \E d \in Dates :
        /\ trf' = [trf EXCEPT !.date = d]
        /\ UNCHANGED <<tx, month, nextId, form, editingTx, chartVars, tableVars,
                       storage, restVars>>

\* MoneyInput onChange of the transfer form
SetTrfAmount ==
    \E s \in TrfInputs :
        /\ trf' = [trf EXCEPT !.amountRaw = sanitizeTyping(s)]
        /\ UNCHANGED <<tx, month, nextId, form, editingTx, chartVars, tableVars,
                       storage, restVars>>

\* most records the store holds before the model adds one, and (plus one) the
\* last id after which it adds none
MaxTx == 2

\* the two records handleTransfer builds, with fresh ids
TransferOut(amount, time) ==
    [id |-> nextId, type |-> "Transferencia", account |-> trf.from,
     toAccount |-> trf.to, date |-> trf.date, time |-> time, amount |-> -amount,
     category |-> "Ingresos", subcategory |-> "Entre cuentas", note |-> ""]

TransferInc(amount, time) ==
    [id |-> nextId + 1, type |-> "Transferencia", account |-> trf.to,
     toAccount |-> trf.from, date |-> trf.date, time |-> time, amount |-> amount,
     category |-> "Ingresos", subcategory |-> "Entre cuentas", note |-> ""]

\* handleTransfer whose incoming record carries the outgoing amount
handleTransfer_SameSign ==
    LET amount == Abs(toNumberFromRaw(trf.amountRaw))
    IN IF trf.from = trf.to \/ amount = 0 THEN UNCHANGED vars
       ELSE \E time \in Times :
            /\ Len(tx) < MaxTx /\ nextId <= MaxTx + 1
            /\ SetTxAndSettle(<<TransferOut(amount, time), TransferInc(-amount, time)>> \o tx)
            /\ nextId' = nextId + 2
            /\ trf' = [trf EXCEPT !.amountRaw = <<>>]
            /\ UNCHANGED <<form, editingTx, view, selectedCat, accFilter, timeMode,
                           tableVars, restVars>>

\* handleTransfer: returns early on equal accounts or a zero amount, otherwise
\* prepends the outgoing and the incoming record and clears the amount field
handleTransfer ==
    LET amount == Abs(toNumberFromRaw(trf.amountRaw))
    IN IF trf.from = trf.to \/ amount = 0 THEN UNCHANGED vars
       ELSE \E time \in Times :
            /\ Len(tx) < MaxTx /\ nextId <= MaxTx + 1
            /\ SetTxAndSettle(<<TransferOut(amount, time), TransferInc(amount, time)>> \o tx)
            /\ nextId' = nextId + 2
            /\ trf' = [trf EXCEPT !.amountRaw = <<>>]
            /\ UNCHANGED <<form, editingTx, view, selectedCat, accFilter, timeMode,
                           tableVars, restVars>>

\* a record already in the store when the application starts
StoredRecord ==
    [id |-> 0, type |-> "Gasto", account |-> "Nequi", toAccount |-> "",
     date |-> 20240220, time |-> 93000, amount |-> -2 * Unit,
     category |-> "Deseos", subcategory |-> "Ocio", note |-> ""]

Init == \E list \in {<<>>, <<StoredRecord>>} : InitWith(list, MonthOf(Today))

Next ==
    \/ SetTrfFrom
    \/ SetTrfTo
    \/ SetTrfDate
    \/ SetTrfAmount
    \/ handleTransfer

Spec == Init /\ [][Next]_vars

\* the step is a transfer that was accepted: the accounts differ and the
\* amount is not zero
TransferAccepted ==
    /\ handleTransfer
    /\ trf.from # trf.to
    /\ toNumberFromRaw(trf.amountRaw) # 0

\* what an accepted transfer does to the store: two records more, both of type
\* Transferencia, with the same date and time, amounts -a on the source
\* account and +a on the destination account with a > 0, each record's
\* toAccount naming the other record's account; the records that were in the
\* store are the rest of it, unchanged and in the same order
C10_AddsPair ==
    TransferAccepted =>
        \E i, j \in 1..Len(tx') :
            /\ i # j
            /\ Len(tx') = Len(tx) + 2
            /\ SelectSeq(tx', LAMBDA r : r # tx'[i] /\ r # tx'[j]) = tx
            /\ \A k \in 1..Len(tx) : tx'[i].id # tx[k].id /\ tx'[j].id # tx[k].id
            /\ tx'[i].type = "Transferencia" /\ tx'[j].type = "Transferencia"
            /\ tx'[i].date = tx'[j].date /\ tx'[i].time = tx'[j].time
            /\ tx'[i].account = trf.from /\ tx'[j].account = trf.to
            /\ tx'[i].amount < 0 /\ tx'[j].amount = -tx'[i].amount
            /\ tx'[i].amount = -Abs(toNumberFromRaw(trf.amountRaw))
            /\ tx'[i].toAccount = tx'[j].account
            /\ tx'[j].toAccount = tx'[i].account

\* C10: a successful handleTransfer (from # to, non-zero amount) adds exactly
\* two records to the store, both of type Transferencia, with identical date
\* and time, amounts -a on the source account and +a on the destination
\* account (a > 0), each record's toAccount naming the other record's account;
\* all pre-existing records are unchanged.
C10_Transfer == [][C10_AddsPair]_vars

\* a transfer of 0,30 (typed as "-1,7") was added in front of the stored record
C10_Witness ==
    /\ Len(tx) = 3
    /\ tx[3] = [StoredRecord EXCEPT !.id = 1]
    /\ tx[1].type = "Transferencia" /\ tx[2].type = "Transferencia"
    /\ tx[1].account # tx[2].account
    /\ tx[1].amount = -(3 * Unit) \div 10
    /\ tx[2].amount = (3 * Unit) \div 10


(***************************************************************************)
(* The capture form, handleSave and record editing, App.tsx 329-336,       *)
(* 594-652 and 836-925.                                                    *)
(***************************************************************************)
\* the type select of the capture form
SetFormType ==
    \E v \in {"Ingreso", "Gasto"} :
        /\ form' = [form EXCEPT !.type = v]
        /\ UNCHANGED <<tx, month, nextId, trf, editingTx, chartVars, tableVars,
                       storage, restVars>>

\* texts entered in the amount field of the capture form
FormInputs == {<<>>, <<"0">>, <<"1", ",", "7">>}

\* MoneyInput onChange of the capture form
SetFormAmount ==
    \E s \in FormInputs :
        /\ form' = [form EXCEPT !.amountRaw = sanitizeTyping(s)]
        /\ UNCHANGED <<tx, month, nextId, trf, editingTx, chartVars, tableVars,
                       storage, restVars>>

\* the category select: the subcategory becomes the category's first tag
SetFormCategory ==
    \E v \in DOMAIN tags :
        /\ form' = [form EXCEPT !.category = v,
                                !.subcategory = IF tags[v] # <<>> THEN tags[v][1] ELSE ""]
        /\ UNCHANGED <<tx, month, nextId, trf, editingTx, chartVars, tableVars,
                       storage, restVars>>

\* fraction digits of String(number): the fixed-point fraction without its
\* trailing zeros
RECURSIVE StripZeros(_)
StripZeros(s) ==
    IF s # <<>> /\ s[Len(s)] = "0" THEN StripZeros(SubSeq(s, 1, Len(s) - 1)) ELSE s

\* String(n) of a number: "-" for a negative one, the integer digits, and a
\* "." with the fraction digits when there is a fraction
NumberToString(n) ==
    LET a    == Abs(n)
        fd   == IntToDigits(a % Unit)
        frac == StripZeros([i \in 1..(FracDigits - Len(fd)) |-> "0"] \o fd)
    IN (IF n < 0 THEN <<"-">> ELSE <<>>)
       \o IntToDigits(a \div Unit)
       \o (IF frac = <<>> THEN <<>> ELSE <<".">> \o frac)

\* the edit button of a row on the current page: setEditingTx(r), then the
\* effect on [editingTx] loads the record into the capture form
StartEdit ==
    \E i \in 1..Len(pageRows) :
        LET r == pageRows[i]
        IN /\ r # editingTx
           /\ editingTx' = r
           /\ form' = [type |-> r.type, account |-> r.account, toAccount |-> r.toAccount,
                       date |-> r.date,
                       amountRaw |-> normalizeMoneyInput(NumberToString(r.amount)).raw,
                       category |-> r.category, subcategory |-> r.subcategory,
                       note |-> r.note]
           /\ UNCHANGED <<tx, month, nextId, trf, chartVars, tableVars, storage, restVars>>

\* the Cancelar / Limpiar button of the capture form
CancelEdit ==
    /\ editingTx' = NoTx
    /\ form' = InitForm
    /\ UNCHANGED <<tx, month, nextId, trf, chartVars, tableVars, storage, restVars>>

\* updatedTx: the record being edited with the form's fields
UpdatedTx(amount) ==
    [editingTx EXCEPT !.type = form.type, !.account = form.account,
                      !.date = form.date,
                      !.amount = IF form.type = "Ingreso" THEN Abs(amount) ELSE -Abs(amount),
                      !.category = form.category, !.subcategory = form.subcategory,
                      !.note = form.note]

\* record: the new record built from the form
NewRecord(amount, time) ==
    [id |-> nextId, type |-> form.type, account |-> form.account, toAccount |-> "",
     date |-> form.date, time |-> time,
     amount |-> Abs(amount) * (IF form.type = "Ingreso" THEN 1 ELSE -1),
     category |-> form.category, subcategory |-> form.subcategory, note |-> form.note]

\* tx.map((t) => (t.id === editingTx.id ? updatedTx : t))
ReplaceById(list, updated) ==
    [i \in 1..Len(list) |-> IF list[i].id = editingTx.id THEN updated ELSE list[i]]

\* the common end of handleSave: setTx(list), then the form is reset
SaveAndReset(list) ==
    /\ SetTxAndSettle(list)
    /\ form' = InitForm
    /\ UNCHANGED <<trf, view, selectedCat, accFilter, timeMode, tableVars, restVars>>

\* a variant for comparison: a new record is put at the end of the list
handleSave_Append ==
    LET amount == toNumberFromRaw(form.amountRaw)
    IN IF amount = 0 THEN UNCHANGED vars
       ELSE IF editingTx # NoTx
       THEN /\ SaveAndReset(ReplaceById(tx, UpdatedTx(amount)))
            /\ editingTx' = NoTx
            /\ UNCHANGED nextId
       ELSE \E time \in Times :
            /\ Len(tx) < MaxTx /\ nextId <= MaxTx + 1
            /\ SaveAndReset(Append(tx, NewRecord(amount, time)))
            /\ nextId' = nextId + 1
            /\ UNCHANGED editingTx

\* a variant for comparison: saving an edit gives the record a fresh id
handleSave_NewId ==
    LET amount == toNumberFromRaw(form.amountRaw)
    IN IF amount = 0 THEN UNCHANGED vars
       ELSE IF editingTx # NoTx
       THEN /\ SaveAndReset(ReplaceById(tx, [UpdatedTx(amount) EXCEPT !.id = nextId]))
            /\ editingTx' = NoTx
            /\ nextId' = nextId + 1
       ELSE \E time \in Times :
            /\ Len(tx) < MaxTx /\ nextId <= MaxTx + 1
            /\ SaveAndReset(<<NewRecord(amount, time)>> \o tx)
            /\ nextId' = nextId + 1
            /\ UNCHANGED editingTx

\* a variant for comparison: the amount is not validated
handleSave_NoCheck ==
    LET amount == toNumberFromRaw(form.amountRaw)
    IN IF editingTx # NoTx
       THEN /\ SaveAndReset(ReplaceById(tx, UpdatedTx(amount)))
            /\ editingTx' = NoTx
            /\ UNCHANGED nextId
       ELSE \E time \in Times :
            /\ Len(tx) < MaxTx /\ nextId <= MaxTx + 1
            /\ SaveAndReset(<<NewRecord(amount, time)>> \o tx)
            /\ nextId' = nextId + 1
            /\ UNCHANGED editingTx

\* a variant for comparison: saving an edit of a record that is no longer in
\* the list puts the record back
handleSave_Upsert ==
    LET amount == toNumberFromRaw(form.amountRaw)
    IN IF amount = 0 THEN UNCHANGED vars
       ELSE IF editingTx # NoTx
       THEN /\ SaveAndReset(IF \E k \in DOMAIN tx : tx[k].id = editingTx.id
                            THEN ReplaceById(tx, UpdatedTx(amount))
                            ELSE <<UpdatedTx(amount)>> \o tx)
            /\ editingTx' = NoTx
            /\ UNCHANGED nextId
       ELSE \E time \in Times :
            /\ Len(tx) < MaxTx /\ nextId <= MaxTx + 1
            /\ SaveAndReset(<<NewRecord(amount, time)>> \o tx)
            /\ nextId' = nextId + 1
            /\ UNCHANGED editingTx

\* handleSave: returns early on an empty or zero amount; otherwise replaces the
\* record being edited, or prepends a new record; then resets the form
handleSave ==
    LET amount == toNumberFromRaw(form.amountRaw)
    IN IF amount = 0 THEN UNCHANGED vars
       ELSE IF editingTx # NoTx
       THEN /\ SaveAndReset(ReplaceById(tx, UpdatedTx(amount)))
            /\ editingTx' = NoTx
            /\ UNCHANGED nextId
       ELSE \E time \in Times :
            /\ Len(tx) < MaxTx /\ nextId <= MaxTx + 1
            /\ SaveAndReset(<<NewRecord(amount, time)>> \o tx)
            /\ nextId' = nextId + 1
            /\ UNCHANGED editingTx

(***************************************************************************)
(* The record store under the local handlers, with no signed-in user.      *)
(***************************************************************************)
InitStore == InitWith(<<StoredRecord>>, MonthOf(Today))

NextStore ==
    \/ SetFormAmount
    \/ handleSave
    \/ StartEdit
    \/ CancelEdit
    \/ SetTrfFrom
    \/ SetTrfAmount
    \/ handleTransfer

SpecStore == InitStore /\ [][NextStore]_vars



\* the step is a handleSave that adds a record: the amount is not zero and no
\* record is being edited
SaveAppends ==
    /\ handleSave
    /\ toNumberFromRaw(form.amountRaw) # 0
    /\ editingTx = NoTx

ValidationFails ==
    \/ handleSave /\ toNumberFromRaw(form.amountRaw) = 0
    \/ handleTransfer /\ (toNumberFromRaw(trf.amountRaw) = 0 \/ trf.from = trf.to)

\* C20: validation failures leave the state unchanged: handleSave with an
\* empty or zero amount, and handleTransfer with an empty or zero amount or
\* with source equal to destination, add no record and modify no existing
\* record.
C20_ValidationKeepsState == [][ValidationFails => UNCHANGED vars]_vars

\* a record is being edited with a zero amount typed over it, and the transfer
\* form holds a non-zero amount and the same account twice
C20_Witness ==
    /\ editingTx # NoTx
    /\ form.amountRaw = <<"0">>
    /\ Len(tx) >= 2
    /\ trf.from = trf.to
    /\ toNumberFromRaw(trf.amountRaw) # 0


(***************************************************************************)
(* Row deletion over stored lists that hold a transfer pair.                *)
(***************************************************************************)
\* the two records of a transfer of 3 from Nequi to Efectivo
StoredPair ==
    <<[id |-> 0, type |-> "Transferencia", account |-> "Nequi", toAccount |-> "Efectivo",
       date |-> 20240220, time |-> 93001, amount |-> -3 * Unit,
       category |-> "Ingresos", subcategory |-> "Entre cuentas", note |-> ""],
      [id |-> 0, type |-> "Transferencia", account |-> "Efectivo", toAccount |-> "Nequi",
       date |-> 20240220, time |-> 93001, amount |-> 3 * Unit,
       category |-> "Ingresos", subcategory |-> "Entre cuentas", note |-> ""]>>

\* an income stored later than the pair
StoredIncome ==
    [id |-> 0, type |-> "Ingreso", account |-> "Efectivo", toAccount |-> "",
     date |-> 20240220, time |-> 93002, amount |-> 7 * Unit,
     category |-> "Ingresos", subcategory |-> "Salario", note |-> ""]

InitDelete ==
    \E list \in {StoredPair \o <<StoredRecord>>,
                 <<StoredIncome>> \o StoredPair \o <<StoredRecord>>} :
        InitWith(list, MonthOf(Today))

NextDelete ==
    \/ toggleSelect
    \/ deleteSelected
    \/ deleteOne
    \/ SetSortDir

SpecDelete == InitDelete /\ [][NextDelete]_vars

\* the records of list other than those whose id is in ids, in list order
Without(list, ids) == SelectSeq(list, LAMBDA r : r.id \notin ids)

\* what a deletion does to the store: deleteOne drops the records of one id,
\* deleteSelected those of the selection, and the rest stay as they were
C14_Removes ==
    /\ deleteOne => \E i \in 1..Len(tx) : tx' = Without(tx, {tx[i].id})
    /\ deleteSelected => tx' = Without(tx, selectedIds)

\* C14: deleteOne(id) removes exactly the records whose id equals id, and
\* deleteSelected removes exactly the records whose id is in the selection;
\* every other record, including the other half of a transfer pair, stays in
\* the store unchanged and in the same order.
C14_DeleteExactly == [][C14_Removes]_vars

\* one half of the stored transfer pair was deleted and the other half is
\* still in the store
C14_Witness ==
    /\ Deleted >= 1
    /\ Cardinality({i \in 1..Len(tx) : tx[i].type = "Transferencia"}) = 1
    /\ \E i \in 1..Len(tx) : tx[i].type = "Gasto"



(***************************************************************************)
(* Preferences, export and import, App.tsx 1155-1175, 1486-1490,            *)
(* 1513-1524 and 1583-1597.                                                *)
(***************************************************************************)
\* texts entered in a budget row
BudgetInputs == {<<"7">>}

\* BudgetRow onChange: onChange(toNumberFromRaw(r)) into one budget field
SetBudget ==
    \E k \in {"basicos", "deseos", "ahorro"}, s \in BudgetInputs :
        /\ budget' = [budget EXCEPT ![k] = toNumberFromRaw(sanitizeTyping(s))]
        /\ storage' = StorageAfter(tx, month, tags, budget')
        /\ UNCHANGED <<tx, month, nextId, formVars, chartVars, tableVars, tags,
                       download, cloudVars>>

\* a taxonomy edited in the tags dialog: one more category
EditedTags == defaultTags @@ ("Mascotas" :> <<"Comida">>)

\* TagsModal onChange={setTags}
TagsModalSave ==
    \E tg \in {defaultTags, EditedTags} :
        /\ tags' = tg
        /\ storage' = StorageAfter(tx, month, tg, budget)
        /\ UNCHANGED <<tx, month, nextId, formVars, chartVars, tableVars, budget,
                       download, cloudVars>>

\* JSON.stringify({ tx, tags, budget }, null, 2)
ExportDoc(list, tg, bd) ==
    JSONstringify("object",
        [tx     |-> JSONstringify("array", list),
         tags   |-> JSONstringify("object", tg),
         budget |-> JSONstringify("object", bd)])

\* onExport: the document is handed to the browser as a download
onExport ==
    /\ ~cloudBusy
    /\ download' = ExportDoc(tx, tags, budget)
    /\ UNCHANGED <<tx, month, nextId, formVars, chartVars, tableVars, prefVars,
                   storage, cloudVars>>

\* a record list found in a file written elsewhere
OtherList ==
    <<[id |-> 101, type |-> "Gasto", account |-> "Efectivo", toAccount |-> "",
       date |-> 20240110, time |-> 93000, amount |-> -7 * Unit,
       category |-> "Deseos", subcategory |-> "Ocio", note |-> ""],
      [id |-> 102, type |-> "Ingreso", account |-> "Nequi", toAccount |-> "",
       date |-> 20240220, time |-> 93000, amount |-> Unit,
       category |-> "Ingresos", subcategory |-> "Salario", note |-> ""]>>

\* a JSON member that the document does not have
Absent == JSONstringify("absent", <<>>)

\* files offered to the import: documents with or without each of the three
\* members, one whose tx is not an array, and one that is not JSON
\* files that are not a document: a text JSON.parse rejects, and the text
\* "null", which parses to null so that reading data.tx throws
MalformedDocs == {JSONstringify("invalid", <<>>), JSONstringify("null", <<>>)}

ImportDocs ==
    {JSONstringify("object", [tx |-> a, tags |-> b, budget |-> c]) :
        a \in {Absent, JSONstringify("array", OtherList), JSONstringify("object", <<>>)},
        b \in {Absent, JSONstringify("object", EditedTags)},
        c \in {Absent, JSONstringify("object", [basicos |-> Unit, deseos |-> 0, ahorro |-> 0])}}
    \cup MalformedDocs

\* a variant for comparison: the import never replaces the tag taxonomy
onImportChange_KeepTags(doc) ==
    /\ ~cloudBusy
    /\ IF doc.kind # "object" THEN UNCHANGED <<tx, month, from, to, prefVars, storage>>
       ELSE LET data == JSONparse(doc)
                list == IF data.tx.kind = "array" THEN JSONparse(data.tx) ELSE tx
                bd   == IF data.budget.kind # "absent" THEN JSONparse(data.budget) ELSE budget
            IN /\ tx' = list
               /\ month' = MonthAfter(list, month)
               /\ from' = RangeAfter(MonthAfter(list, month), timeMode, from, to)[1]
               /\ to' = RangeAfter(MonthAfter(list, month), timeMode, from, to)[2]
               /\ tags' = tags
               /\ budget' = bd
               /\ storage' = StorageAfter(list, MonthAfter(list, month), tags, bd)
    /\ UNCHANGED <<nextId, formVars, view, selectedCat, accFilter, timeMode, tableVars,
                   download, cloudVars>>

\* a variant for comparison: a file that is not a document is read as a
\* document with an empty record list
onImportChange_EmptyOnError(doc) ==
    /\ ~cloudBusy
    /\ LET data == IF doc.kind = "object" THEN JSONparse(doc)
                   ELSE [tx |-> JSONstringify("array", <<>>), tags |-> Absent,
                         budget |-> Absent]
           list == IF data.tx.kind = "array" THEN JSONparse(data.tx) ELSE tx
           tg   == IF data.tags.kind # "absent" THEN JSONparse(data.tags) ELSE tags
           bd   == IF data.budget.kind # "absent" THEN JSONparse(data.budget) ELSE budget
       IN /\ tx' = list
          /\ month' = MonthAfter(list, month)
          /\ from' = RangeAfter(MonthAfter(list, month), timeMode, from, to)[1]
          /\ to' = RangeAfter(MonthAfter(list, month), timeMode, from, to)[2]
          /\ tags' = tg
          /\ budget' = bd
          /\ storage' = StorageAfter(list, MonthAfter(list, month), tg, bd)
    /\ UNCHANGED <<nextId, formVars, view, selectedCat, accFilter, timeMode, tableVars,
                   download, cloudVars>>

\* onImportChange for a chosen file: JSON.parse, then setTx if data.tx is an
\* array, setTags if data.tags is there, setBudget if data.budget is there;
\* a text that does not parse changes nothing
onImportChange(doc) ==
    /\ ~cloudBusy
    /\ IF doc.kind # "object" THEN UNCHANGED <<tx, month, from, to, prefVars, storage>>
       ELSE LET data == JSONparse(doc)
                list == IF data.tx.kind = "array" THEN JSONparse(data.tx) ELSE tx
                tg   == IF data.tags.kind # "absent" THEN JSONparse(data.tags) ELSE tags
                bd   == IF data.budget.kind # "absent" THEN JSONparse(data.budget) ELSE budget
            IN /\ tx' = list
               /\ month' = MonthAfter(list, month)
               /\ from' = RangeAfter(MonthAfter(list, month), timeMode, from, to)[1]
               /\ to' = RangeAfter(MonthAfter(list, month), timeMode, from, to)[2]
               /\ tags' = tg
               /\ budget' = bd
               /\ storage' = StorageAfter(list, MonthAfter(list, month), tg, bd)
    /\ UNCHANGED <<nextId, formVars, view, selectedCat, accFilter, timeMode, tableVars,
                   download, cloudVars>>

\* the file input of the settings dialog: a file written elsewhere, or the
\* document exported before
ImportFile == \E doc \in ImportDocs \cup {download} : onImportChange(doc)

InitPersist == InitWith(<<StoredRecord>>, MonthOf(Today))

NextPersist ==
    \/ SetBudget
    \/ TagsModalSave
    \/ onExport
    \/ ImportFile
    \/ SetMonth

SpecPersist == InitPersist /\ [][NextPersist]_vars



\* the step imports the document that was exported before
ImportsExport == download.kind = "object" /\ onImportChange(download)

\* the step imports one of the files written elsewhere
ImportsFile(doc) == onImportChange(doc)

C11_Reproduces ==
    /\ ImportsExport => ExportDoc(tx', tags', budget') = download
    /\ \A doc \in ImportDocs :
          ImportsFile(doc) =>
              /\ doc.kind = "object" /\ doc.v.tx.kind = "array" => tx' = doc.v.tx.v
              /\ doc.kind # "object" \/ doc.v.tx.kind # "array" => tx' = tx
              /\ doc.kind # "object" \/ doc.v.tags.kind = "absent" => tags' = tags
              /\ doc.kind # "object" \/ doc.v.budget.kind = "absent" => budget' = budget

\* C11: importing the document that an export produced gives back the record
\* list, the tags and the budget of the moment of the export, whatever the state
\* has become in between; importing a document without tx (or with a tx that is
\* not an array), without tags or without budget leaves that piece as it was.
C11_RoundTrip == [][C11_Reproduces]_vars

\* the export of an imported list is in the download, while tags and budget are
\* those the import of a document without them has left alone
C11_Witness ==
    /\ tx = OtherList
    /\ tags = defaultTags
    /\ budget = [ZeroBudget EXCEPT !.ahorro = toNumberFromRaw(<<"7">>)]
    /\ month = 202401
    /\ download = ExportDoc(OtherList, EditedTags, ZeroBudget)

C15_Blobs == storage = StorageOf(tx, month, tags, budget)

C15_Frame ==
    /\ tx' = tx => storage'.tx = storage.tx
    /\ tags' = tags => storage'.tags = storage.tags
    /\ month' = month => storage'.month = storage.month
    /\ budget' = budget => storage'.budget = storage.budget

\* C15: in every state the four blobs of the local storage are the
\* serialisations of the record list, the tags, the month and the budget in
\* memory, and a step that leaves one of the four alone leaves its blob alone.
C15_Storage == []C15_Blobs /\ [][C15_Frame]_vars

\* list, tags, month and budget have all been replaced since the start
C15_Witness ==
    /\ tx = OtherList
    /\ tags = EditedTags
    /\ month = 202401
    /\ budget.deseos # 0
    /\ storage.month = 202401
    /\ storage.tx = JSONstringify("array", OtherList)



(***************************************************************************)
(* The hosted backend, lib/supabase.ts 199-341, and the handlers that talk *)
(* to it: the mount effects (App.tsx 246-248, 262-304), handleSignOut      *)
(* (361-368), handleSaveGoal (654-670) and onSync (1540-1582).  Every      *)
(* await is a step; a handler in flight is an entry of procs.  In these    *)
(* steps a call fails only where the code itself throws (no user); the     *)
(* requests the backend rejects are steps of their own further down.       *)
(***************************************************************************)
\* the one account of the backend
User == "u"

\* SQL null in a row
Null == "<null>"

\* state that no cloud handler touches
uiVars == <<nextId, formVars, view, selectedCat, accFilter, timeMode, tableVars, download>>

\* setTx, setTags and setBudget in one render, followed by the effects
Settle(list, tg, bd) ==
    /\ tx' = list
    /\ month' = MonthAfter(list, month)
    /\ from' = RangeAfter(MonthAfter(list, month), timeMode, from, to)[1]
    /\ to' = RangeAfter(MonthAfter(list, month), timeMode, from, to)[2]
    /\ tags' = tg
    /\ budget' = bd
    /\ storage' = StorageAfter(list, MonthAfter(list, month), tg, bd)

\* the row onSync builds from a record: to_account: t.toAccount || null,
\* note: t.note || null
SyncRow(t) ==
    [id |-> t.id, type |-> t.type, account |-> t.account,
     to_account |-> IF t.toAccount = "" THEN Null ELSE t.toAccount,
     date |-> t.date, time |-> t.time, amount |-> t.amount,
     category |-> t.category, subcategory |-> t.subcategory,
     note |-> IF t.note = "" THEN Null ELSE t.note]

\* the payload row of upsertTxBulk: { ...r, user_id: user.id,
\* to_account: r.to_account ?? null, note: r.note ?? null }
PayloadRow(r, u) ==
    [id |-> r.id, user_id |-> u, type |-> r.type, account |-> r.account,
     to_account |-> r.to_account, date |-> r.date, time |-> r.time,
     amount |-> r.amount, category |-> r.category, subcategory |-> r.subcategory,
     note |-> r.note]

\* the record built from a pulled row: toAccount: r.to_account || "",
\* amount: Number(r.amount), note: r.note || ""
Mapped(r) ==
    [id |-> r.id, type |-> r.type, account |-> r.account,
     toAccount |-> IF r.to_account = Null THEN "" ELSE r.to_account,
     date |-> r.date, time |-> r.time, amount |-> r.amount,
     category |-> r.category, subcategory |-> r.subcategory,
     note |-> IF r.note = Null THEN "" ELSE r.note]

\* a variant for comparison: an upsert that keeps the row already stored
upsertTxBulk_KeepRemote(rows, u) ==
    IF rows = <<>> THEN remote.tx
    ELSE LET payload == {PayloadRow(rows[i], u) : i \in DOMAIN rows}
         IN remote.tx \cup {p \in payload : \A r \in remote.tx : r.id # p.id}

\* the movements table after upsertTxBulk(rows) for user u: nothing for an
\* empty list, else insert or replace by id
upsertTxBulk(rows, u) ==
    IF rows = <<>> THEN remote.tx
    ELSE LET payload == {PayloadRow(rows[i], u) : i \in DOMAIN rows}
         IN {r \in remote.tx : \A p \in payload : p.id # r.id} \cup payload

\* s lists its rows by date and then time, latest first
Descending(s) ==
    \A i, j \in DOMAIN s :
        i < j => \/ s[i].date > s[j].date
                 \/ s[i].date = s[j].date /\ s[i].time >= s[j].time

\* the lists pullTx() can return: [] without a user, else the user's rows
\* ordered by date and time descending (rows that tie come in any order)
pullTx ==
    IF session = "" THEN {<<>>}
    ELSE LET rows == {r \in remote.tx : r.user_id = session}
         IN {s \in [1..Cardinality(rows) -> rows] :
                /\ \A i, j \in DOMAIN s : i # j => s[i] # s[j]
                /\ Descending(s)}

\* the movements table after deleteTx(ids)
deleteTx(ids) ==
    IF session = "" \/ ids = {} THEN remote.tx
    ELSE {r \in remote.tx : ~(r.id \in ids /\ r.user_id = session)}

\* the goal the goal dialog saves
GoalData == [id |-> "g1", name |-> "Viaje", target_amount |-> 7 * Unit]

\* the list loadGoals() returns
loadGoals ==
    IF session = "" THEN <<>>
    ELSE IF GoalData \in remote.goals THEN <<GoalData>> ELSE <<>>

\* an older copy of the stored record and a row that only the backend has,
\* with settings saved earlier
SeededRemote ==
    [tx |-> {PayloadRow(SyncRow([StoredRecord EXCEPT !.id = 1, !.amount = -7 * Unit]), User),
             PayloadRow(SyncRow([StoredRecord EXCEPT !.id = 201, !.date = 20240110,
                                                     !.note = "nube"]), User)},
     settings |-> <<[tags |-> EditedTags,
                     budget |-> [basicos |-> Unit, deseos |-> 0, ahorro |-> 0]]>>,
     goals |-> {}]

\* the i-th handler in flight moves on to the await named pc
Advance(i, pc) == [procs EXCEPT ![i].pc = pc]

\* the mount effect getUser().then((u) => setUserEmail(u?.email ?? null)); a
\* changed userEmail runs the [userEmail] effect, which starts loadCloudData
mountUser ==
    \E i \in DOMAIN procs :
        /\ procs[i].kind = "mount"
        /\ userEmail' = session
        /\ procs' = IF session # userEmail
                    THEN Spawn(Finish(procs, i), NewProc("load", "getUser"))
                    ELSE Finish(procs, i)
        /\ UNCHANGED <<tx, month, from, to, prefVars, storage, uiVars, goals, session,
                       cloudBusy, remote, msgVars>>

\* loadCloudData, one await at a time
loadCloudData ==
    \E i \in DOMAIN procs :
        /\ procs[i].kind = "load"
        /\ CASE procs[i].pc = "getUser" ->
                  IF session = ""
                  THEN /\ Settle(<<>>, defaultTags, ZeroBudget)
                       /\ goals' = <<>>
                       /\ procs' = Finish(procs, i)
                       /\ UNCHANGED <<cloudBusy, msgVars>>
                  ELSE /\ cloudBusy' = TRUE
                       /\ procs' = Advance(i, "loadSettings")
                       /\ UNCHANGED <<tx, month, from, to, prefVars, storage, goals, msgVars>>
             [] procs[i].pc = "loadSettings" ->
                  LET s == IF session = "" THEN <<>> ELSE remote.settings
                  IN /\ Settle(tx,
                               IF s # <<>> /\ DOMAIN s[1].tags # {} THEN s[1].tags ELSE tags,
                               IF s # <<>> THEN s[1].budget ELSE budget)
                     /\ procs' = Advance(i, "pullTx")
                     /\ UNCHANGED <<goals, cloudBusy, msgVars>>
             [] procs[i].pc = "pullTx" ->
                  \E cloudTx \in pullTx :
                     /\ SetTxAndSettle([j \in DOMAIN cloudTx |-> Mapped(cloudTx[j])])
                     /\ procs' = Advance(i, "loadGoals")
                     /\ UNCHANGED <<prefVars, goals, cloudBusy, msgVars>>
             [] procs[i].pc = "loadGoals" ->
                  /\ goals' = loadGoals
                  /\ SetCloudMsg("Datos cargados desde la nube")
                  /\ cloudBusy' = FALSE
                  /\ procs' = Finish(procs, i)
                  /\ UNCHANGED <<tx, month, from, to, prefVars, storage>>
        /\ UNCHANGED <<uiVars, userEmail, session, remote>>

\* the sign-out button of the settings dialog, shown to a signed-in user
handleSignOut ==
    /\ userEmail # ""
    /\ ~cloudBusy
    /\ Len(procs) < MaxProcs
    /\ procs' = Spawn(procs, NewProc("signOut", "signOut"))
    /\ UNCHANGED <<tx, month, from, to, prefVars, storage, uiVars, goals, userEmail,
                   session, cloudBusy, remote, msgVars>>

\* await signOut() has returned: setUserEmail(null), and the [userEmail]
\* effect starts loadCloudData if the value changed
signedOut ==
    \E i \in DOMAIN procs :
        /\ procs[i].kind = "signOut"
        /\ session' = ""
        /\ userEmail' = ""
        /\ procs' = IF userEmail # ""
                    THEN Spawn(Finish(procs, i), NewProc("load", "getUser"))
                    ELSE Finish(procs, i)
        /\ UNCHANGED <<tx, month, from, to, prefVars, storage, uiVars, goals,
                       cloudBusy, remote, msgVars>>

\* the remote delete started by deleteOne or deleteSelected
deleteTxCloud ==
    \E i \in DOMAIN procs :
        /\ procs[i].kind = "delete"
        /\ remote' = [remote EXCEPT !.tx = deleteTx(procs[i].ids)]
        /\ procs' = Finish(procs, i)
        /\ UNCHANGED <<tx, month, from, to, prefVars, storage, uiVars, goals,
                       userEmail, session, cloudBusy, msgVars>>

\* handleSaveGoal up to its first await
handleSaveGoal ==
    /\ Len(procs) < MaxProcs
    /\ cloudBusy' = TRUE
    /\ procs' = Spawn(procs, NewProc("goal", "saveGoal"))
    /\ UNCHANGED <<tx, month, from, to, prefVars, storage, uiVars, goals, userEmail,
                   session, remote, msgVars>>

\* the rest of handleSaveGoal: saveGoal throws without a user; the finally
\* block clears cloudBusy
savedGoal ==
    \E i \in DOMAIN procs :
        /\ procs[i].kind = "goal"
        /\ CASE procs[i].pc = "saveGoal" ->
                  IF session = ""
                  THEN /\ SetCloudMsg("Error al guardar objetivo")
                       /\ cloudBusy' = FALSE
                       /\ procs' = Finish(procs, i)
                       /\ UNCHANGED <<goals, remote>>
                  ELSE /\ remote' = [remote EXCEPT !.goals = @ \cup {GoalData}]
                       /\ procs' = Advance(i, "loadGoals")
                       /\ UNCHANGED <<goals, cloudBusy, msgVars>>
             [] procs[i].pc = "loadGoals" ->
                  /\ goals' = loadGoals
                  /\ SetCloudMsg("Objetivo guardado")
                  /\ cloudBusy' = FALSE
                  /\ procs' = Finish(procs, i)
                  /\ UNCHANGED remote
        /\ UNCHANGED <<tx, month, from, to, prefVars, storage, uiVars, userEmail, session>>

\* a variant for comparison: the sync button also waits for a sync in flight
onSync_Exclusive ==
    /\ ~cloudBusy
    /\ \A i \in DOMAIN procs : procs[i].kind # "sync"
    /\ Len(procs) < MaxProcs
    /\ cloudBusy' = TRUE
    /\ procs' = Spawn(procs, [NewProc("sync", "saveSettings")
                                 EXCEPT !.tx = tx, !.tags = tags, !.budget = budget])
    /\ UNCHANGED <<tx, month, from, to, prefVars, storage, uiVars, goals, userEmail,
                   session, remote, msgVars>>

\* the sync button (disabled while cloudBusy): onSync up to its first await,
\* with tx, tags and budget as the closure holds them
onSync ==
    /\ ~cloudBusy
    /\ Len(procs) < MaxProcs
    /\ cloudBusy' = TRUE
    /\ procs' = Spawn(procs, [NewProc("sync", "saveSettings")
                                 EXCEPT !.tx = tx, !.tags = tags, !.budget = budget])
    /\ UNCHANGED <<tx, month, from, to, prefVars, storage, uiVars, goals, userEmail,
                   session, remote, msgVars>>

\* onSync after an await: saveSettings and upsertTxBulk throw without a user,
\* which ends the handler in its finally block; the pull replaces the list
synced ==
    \E i \in DOMAIN procs :
        /\ procs[i].kind = "sync"
        /\ CASE procs[i].pc = "saveSettings" ->
                  IF session = ""
                  THEN /\ SetCloudMsg("Error al sincronizar")
                       /\ cloudBusy' = FALSE
                       /\ procs' = Finish(procs, i)
                       /\ UNCHANGED <<tx, month, from, to, storage, remote>>
                  ELSE /\ remote' = [remote EXCEPT !.settings =
                                        <<[tags |-> procs[i].tags, budget |-> procs[i].budget]>>]
                       /\ procs' = Advance(i, "upsertTxBulk")
                       /\ UNCHANGED <<tx, month, from, to, storage, cloudBusy, msgVars>>
             [] procs[i].pc = "upsertTxBulk" ->
                  IF session = ""
                  THEN /\ SetCloudMsg("Error al sincronizar")
                       /\ cloudBusy' = FALSE
                       /\ procs' = Finish(procs, i)
                       /\ UNCHANGED <<tx, month, from, to, storage, remote>>
                  ELSE /\ remote' = [remote EXCEPT !.tx =
                                        upsertTxBulk([j \in DOMAIN procs[i].tx |->
                                                         SyncRow(procs[i].tx[j])], session)]
                       /\ procs' = Advance(i, "pullTx")
                       /\ UNCHANGED <<tx, month, from, to, storage, cloudBusy, msgVars>>
             [] procs[i].pc = "pullTx" ->
                  \E cloudTx \in pullTx :
                     /\ SetTxAndSettle([j \in DOMAIN cloudTx |-> Mapped(cloudTx[j])])
                     /\ SetCloudMsg("Sincronizado")
                     /\ cloudBusy' = FALSE
                     /\ procs' = Finish(procs, i)
                     /\ UNCHANGED remote
        /\ UNCHANGED <<prefVars, uiVars, goals, userEmail, session>>

\* the component mounts with the stored record; the browser may or may not
\* hold a session; both mount effects are waiting for getUser()
InitCloud ==
    /\ InitLocal(<<StoredRecord>>, MonthOf(Today))
    /\ userEmail = ""
    /\ session \in {"", User}
    /\ remote = SeededRemote
    /\ procs = <<[NewProc("mount", "getUser") EXCEPT !.solo = FALSE],
                 [NewProc("load", "getUser") EXCEPT !.solo = FALSE]>>

NextCloud ==
    \/ mountUser
    \/ loadCloudData
    \/ handleSignOut
    \/ signedOut
    \/ deleteOne
    \/ deleteTxCloud
    \/ handleSaveGoal
    \/ savedGoal
    \/ onSync
    \/ synced

SpecCloud == InitCloud /\ [][NextCloud]_vars



\* C16: with no session, neither the mount effects nor the sign-out change the
\* record list, the tags, the budget or their blobs in the local storage: what
\* was loaded from the local storage stays until the user deletes or replaces it.
C16_LocalOnly ==
    [][(session' = "" /\ (mountUser \/ loadCloudData \/ signedOut))
          => UNCHANGED <<tx, tags, budget, storage>>]_vars

\* a step takes remote rows into the record store
ReadsRemote ==
    /\ session # ""
    /\ \E i \in DOMAIN procs :
          /\ procs[i].pc = "pullTx"
          /\ procs' \in {Finish(procs, i), Advance(i, "loadGoals")}

\* C17: the rows of the backend are written, deleted or read into the record
\* store only by a step of the sync the user asked for: not by the start of the
\* app, a change of user, a deletion, a creation or an edit.
C17_OnlySync == [][(remote'.tx # remote.tx \/ ReadsRemote) => synced]_vars

\* C19: nothing but the cloudBusy flag stands between the user and a new sync:
\* whenever the flag is down (and the model has room for one more handler), a
\* sync can start, also while another sync is in flight.
C19_NoGuard == [](~cloudBusy /\ Len(procs) < MaxProcs => ENABLED onSync)

\* two syncs in flight: the first has upserted its rows and waits for its pull,
\* the second has saved its settings and is about to upsert
C19_Witness ==
    /\ Len(procs) = 2
    /\ procs[1].kind = "sync" /\ procs[1].pc = "pullTx"
    /\ procs[2].kind = "sync" /\ procs[2].pc = "upsertTxBulk"

(***************************************************************************)
(* A signed-in session some time after the start: the stored record has    *)
(* been edited here since the last sync and the backend has been written   *)
(* from another device, so that list and backend differ.                   *)
(***************************************************************************)
InitSync ==
    /\ InitLocal(<<StoredRecord>>, MonthOf(Today))
    /\ userEmail = User
    /\ session = User
    /\ remote = SeededRemote
    /\ procs = <<>>

NextSync ==
    \/ onSync
    \/ synced
    \/ StartEdit
    \/ handleSave
    \/ deleteOne
    \/ deleteTxCloud

SpecSync == InitSync /\ [][NextSync]_vars

\* the ids of a list, position by position, and as a set
IdSeq(list) == [k \in DOMAIN list |-> list[k].id]

IdSet(list) == {list[k].id : k \in DOMAIN list}

RowIds(rows) == {r.id : r \in rows}

\* the i-th handler is a sync and the step is one of its steps
SyncSteps(i) ==
    /\ procs[i].kind = "sync"
    /\ procs' # procs
    /\ Len(procs') <= Len(procs)
    /\ \/ procs' = Finish(procs, i)
       \/ procs' = Advance(i, "upsertTxBulk")
       \/ procs' = Advance(i, "pullTx")

\* the i-th handler is a sync whose upsert returns in this step
SyncUpserts(i) ==
    /\ procs[i].kind = "sync" /\ procs[i].pc = "upsertTxBulk"
    /\ procs' = Advance(i, "pullTx")

\* the i-th handler is a sync whose pull returns in this step, with a user
SyncPulls(i) ==
    /\ procs[i].kind = "sync" /\ procs[i].pc = "pullTx" /\ session # ""
    /\ procs' = Finish(procs, i)

\* the i-th handler is a sync that completes in this step, with a user, and
\* that nothing has interleaved with: no other handler was in flight since it
\* started and the list is the one it started with
SyncCompletes(i) ==
    /\ SyncPulls(i)
    /\ procs[i].solo
    /\ tx = procs[i].tx

C18_Merges ==
    \A i \in DOMAIN procs :
        /\ SyncCompletes(i) =>
              LET mine == {PayloadRow(SyncRow(tx[k]), session) : k \in DOMAIN tx}
              IN /\ remote'.tx = {r \in procs[i].r0 : r.id \notin RowIds(mine)} \cup mine
                 /\ {Mapped(r) : r \in remote'.tx} = {tx'[k] : k \in DOMAIN tx'}
                 /\ Len(tx') = Cardinality(remote'.tx)
                 /\ RowIds(procs[i].r0) \subseteq RowIds(remote'.tx)
        /\ SyncSteps(i) => RowIds(remote.tx) \subseteq RowIds(remote'.tx)

\* C18: when a sync completes that nothing interleaved with, the backend holds
\* the rows it held when the sync started, except those whose id is in the
\* list, plus one row per record of the list, and the list becomes exactly the
\* records of those rows; no step of a sync removes a row of the backend.
C18_SyncMerges == [][C18_Merges]_vars

\* after a sync: the list holds the local version of record 1 and the record
\* of the row that only the backend had, and the backend holds the local
\* version of row 1
C18_Witness ==
    /\ procs = <<>>
    /\ ~cloudBusy
    /\ Len(tx) = 2
    /\ [StoredRecord EXCEPT !.id = 1] \in {tx[k] : k \in DOMAIN tx}
    /\ 201 \in IdSet(tx)
    /\ PayloadRow(SyncRow([StoredRecord EXCEPT !.id = 1]), User) \in remote.tx

(***************************************************************************)
(* The first session of a new account: one stored record, nothing in the   *)
(* backend; the user edits, transfers, deletes and syncs.                  *)
(***************************************************************************)
InitIds ==
    /\ InitLocal(<<StoredRecord>>, MonthOf(Today))
    /\ userEmail = User
    /\ session = User
    /\ remote = EmptyRemote
    /\ procs = <<>>

NextIds ==
    \/ StartEdit
    \/ handleSave
    \/ SetTrfAmount
    \/ handleTransfer
    \/ deleteOne
    \/ deleteTxCloud
    \/ onSync
    \/ synced

SpecIds == InitIds /\ [][NextIds]_vars

\* the step is a handleSave that replaces the record being edited
SaveEdits ==
    /\ editingTx # NoTx
    /\ editingTx' = NoTx
    /\ toNumberFromRaw(form.amountRaw) # 0
    /\ handleSave

\* the step adds records: a save with no record being edited, or a transfer
Creates ==
    \/ nextId' = nextId + 1 /\ SaveAppends
    \/ nextId' = nextId + 2 /\ TransferAccepted

\* the step is a deleteOne
Deletes == Len(tx') < Len(tx) /\ selectedIds' \subseteq selectedIds /\ deleteOne

C12_Keeps ==
    /\ SaveEdits => IdSeq(tx') = IdSeq(tx)
    /\ nextId' # nextId =>
          /\ Creates
          /\ LET n == nextId' - nextId
             IN /\ IdSeq(SubSeq(tx', n + 1, Len(tx'))) = IdSeq(tx)
                /\ IdSet(SubSeq(tx', 1, n)) = nextId..(nextId' - 1)
                /\ IdSet(tx) \cap nextId..(nextId' - 1) = {}
    /\ Deletes => \E k \in DOMAIN tx : IdSeq(tx') = IdSeq(Without(tx, {tx[k].id}))
    /\ \A i \in DOMAIN procs :
          /\ SyncUpserts(i) =>
                \A k \in DOMAIN procs[i].tx :
                    \E r \in remote'.tx : r.id = procs[i].tx[k].id /\ Mapped(r) = procs[i].tx[k]
          /\ SyncPulls(i) =>
                /\ Len(tx') = Cardinality(remote.tx)
                /\ \A r \in remote.tx : \E k \in DOMAIN tx' : tx'[k] = Mapped(r)
    /\ nextId' = nextId => IdSet(tx') \subseteq IdSet(tx) \cup RowIds(remote.tx)

\* C12: a record keeps its id: saving an edit, a transfer and a deletion leave
\* the id of every record that stays where it was; the sync stores each record
\* under its own id and takes each row back under the id of the row; only the
\* creation of records issues new ids, and only for the new records.
C12_IdsStable == [][C12_Keeps]_vars

\* a transfer has added records 2 and 3, the incoming record 3 was saved from
\* the edit form (which made its amount negative), record 2 was deleted, and a
\* sync has stored the list and pulled it back under the same ids
C12_Witness ==
    /\ procs = <<>>
    /\ nextId = 4
    /\ IdSet(tx) = {1, 3}
    /\ RowIds(remote.tx) = {1, 3}
    /\ \E k \in DOMAIN tx : tx[k].id = 3 /\ tx[k].type = "Transferencia" /\ tx[k].amount < 0
    /\ \A r \in remote.tx : \E k \in DOMAIN tx : tx[k] = Mapped(r)


\* ---------------------------------------------------------------------
\* Import of a file that is not a document (SpecPersist)
\* ---------------------------------------------------------------------

ImportsMalformed == \E doc \in MalformedDocs : onImportChange(doc)

\* C22: importing a text that is not valid JSON, or the JSON text null,
\* changes none of the record list, the tag taxonomy and the budget
C22_MalformedKeeps == [][ImportsMalformed => UNCHANGED <<tx, tags, budget>>]_vars

\* a state with imported records, an edited taxonomy and a budget, in which
\* a file can be chosen for import
C22_Witness ==
    /\ ~cloudBusy
    /\ tx = OtherList
    /\ tags = EditedTags
    /\ budget.basicos = Unit


\* ---------------------------------------------------------------------
\* Editing and deleting rows of a stored list, with no signed-in user
\* ---------------------------------------------------------------------

InitEdit == InitWith(<<StoredIncome, StoredRecord>>, MonthOf(Today))

NextEdit ==
    \/ StartEdit
    \/ SetFormType
    \/ SetFormAmount
    \/ handleSave
    \/ CancelEdit
    \/ deleteOne

SpecEdit == InitEdit /\ [][NextEdit]_vars

\* the record being edited is still in the list
EditedIsListed == \E k \in DOMAIN tx : tx[k].id = editingTx.id

C29_Frame ==
    SaveEdits =>
        /\ Len(tx') = Len(tx)
        /\ \A k \in DOMAIN tx :
              IF tx[k].id # editingTx.id THEN tx'[k] = tx[k]
              ELSE /\ tx'[k].id = tx[k].id
                   /\ tx'[k].time = tx[k].time
                   /\ tx'[k].toAccount = tx[k].toAccount
        /\ ~EditedIsListed => tx' = tx

\* C29: saving an edit keeps the length and the order of the list and every
\* record with another id; the edited record keeps its id, time and
\* toAccount; when the record being edited has been deleted meanwhile, the
\* save leaves the list as it is
C29_EditFrame == [][C29_Frame]_vars

\* the second record was saved from the edit form with another type and
\* amount, the first record is as stored
C29_Witness ==
    /\ editingTx = NoTx
    /\ Len(tx) = 2
    /\ tx[1].id = 1 /\ tx[1].amount = 7 * Unit
    /\ tx[2].id = 2 /\ tx[2].type = "Ingreso" /\ tx[2].amount = 17 * (Unit \div 10)
    /\ tx[2].time = 93000

\* the record being edited has been deleted and the form still holds it
C29_WitnessDeleted ==
    /\ editingTx # NoTx
    /\ ~EditedIsListed
    /\ toNumberFromRaw(form.amountRaw) # 0


\* ---------------------------------------------------------------------
\* Signs of the amounts (SpecStore)
\* ---------------------------------------------------------------------

\* the sign the convention gives a record of the capture form
SignOk(r) ==
    /\ r.type = "Ingreso" => r.amount > 0
    /\ r.type = "Gasto" => r.amount < 0

C24_Signs ==
    /\ SaveAppends => SignOk(tx'[1])
    /\ TransferAccepted => tx'[1].amount < 0 /\ tx'[2].amount > 0
    /\ SaveEdits =>
          \A k \in DOMAIN tx :
              tx[k].id = editingTx.id =>
                  /\ SignOk(tx'[k])
                  /\ tx'[k].type = "Transferencia" =>
                         (tx'[k].amount > 0) = (tx[k].amount > 0)

\* C24: a created record is positive for an income and negative for an
\* expense, a transfer makes a negative sending record and a positive
\* receiving record, and a saved edit leaves an income positive, an expense
\* negative and either record of a transfer on its side of zero
C24_SignConvention == [][C24_Signs]_vars


\* ---------------------------------------------------------------------
\* Balances and monthly totals across a transfer (Spec)
\* ---------------------------------------------------------------------

\* saldoActual for given balances
SaldoOf(map) == SumValues(map) - map["TC Rappi"]

C28_Neutral ==
    TransferAccepted =>
        LET a      == Abs(toNumberFromRaw(trf.amountRaw))
            before == BalancesOf(tx)
            after  == BalancesOf(tx')
            mBefore == MonthTotals(txOfMonth)
            mAfter  == MonthTotals(SelectSeq(tx', LAMBDA t : MonthOf(t.date) = month'))
        IN /\ SumValues(after) = SumValues(before)
           /\ \A acc \in Accounts :
                 after[acc] = before[acc] + (IF acc = trf.from THEN -a
                                             ELSE IF acc = trf.to THEN a ELSE 0)
           /\ (trf.from # "TC Rappi" /\ trf.to # "TC Rappi") =>
                 SaldoOf(after) = SaldoOf(before)
           /\ mAfter.ingresos = mBefore.ingresos
           /\ mAfter.gastos = mBefore.gastos

\* C28: an accepted transfer of a leaves the sum of the account balances as
\* it was, changes the balance of the source account by -a, of the
\* destination account by +a and no other balance, leaves the overall
\* balance as it was when neither account is "TC Rappi", and leaves the
\* income and the expenses of the active month as they were
C28_TransferNeutral == [][C28_Neutral]_vars

\* after a transfer from Nequi to Efectivo on top of the stored expense: the
\* balances moved, their sum and the overall balance are those of the expense
C28_Witness ==
    /\ Len(tx) = 3
    /\ byAccountAllTime["Efectivo"] > 0
    /\ byAccountAllTime["Nequi"] = -2 * Unit - byAccountAllTime["Efectivo"]
    /\ byAccountAllTime["TC Rappi"] = 0
    /\ totals.saldoActual = -2 * Unit
    /\ totals.gastos = 2 * Unit /\ totals.ingresos = 0


\* ---------------------------------------------------------------------
\* The busy flag and the handlers in flight (SpecCloud)
\* ---------------------------------------------------------------------

\* the i-th handler in flight has called setCloudBusy(true) and has not yet
\* reached its finally block
HoldsBusy(i) ==
    \/ procs[i].kind = "load" /\ procs[i].pc # "getUser"
    \/ procs[i].kind = "sync"
    \/ procs[i].kind = "goal"

\* C26: cloudBusy is true exactly while a cloud load, a sync or a goal save
\* that has set it is in flight, and false when none is
C26_BusyExact == cloudBusy <=> \E i \in DOMAIN procs : HoldsBusy(i)


\* ---------------------------------------------------------------------
\* Local changes made while a sync is in flight (SpecIds)
\* ---------------------------------------------------------------------

C27_Keeps ==
    \A i \in DOMAIN procs :
        SyncPulls(i) =>
            /\ \A k \in DOMAIN tx :
                  tx[k].id \notin IdSet(procs[i].tx) => tx[k].id \in IdSet(tx')
            /\ \A k \in DOMAIN procs[i].tx :
                  procs[i].tx[k].id \notin IdSet(tx) => procs[i].tx[k].id \notin IdSet(tx')

\* C27: when a sync completes, every record that was added to the list after
\* the sync started is still in the list, and no record that was deleted
\* from the list after the sync started is in the list again
C27_LocalKept == [][C27_Keeps]_vars


(***************************************************************************)
(* Requests the backend rejects, and the status message, App.tsx 293-298,  *)
(* 523-527, 541-545 and 1572-1577.                                         *)
(***************************************************************************)
\* the callback of a setTimeout set with a status message: setCloudMsg(null)
clearCloudMsg ==
    /\ timers > 0
    /\ cloudMsg' = ""
    /\ timers' = timers - 1
    /\ UNCHANGED <<tx, month, from, to, prefVars, storage, uiVars, goals, userEmail,
                   session, cloudBusy, remote, procs>>

\* await deleteTxCloud(ids) rejects: the catch block of deleteOne /
\* deleteSelected sets the message; the list was filtered before the call
deleteTxCloudFails ==
    \E i \in DOMAIN procs :
        /\ procs[i].kind = "delete"
        /\ session # ""
        /\ SetCloudMsg("No se pudo borrar en la nube")
        /\ procs' = Finish(procs, i)
        /\ UNCHANGED <<tx, month, from, to, prefVars, storage, uiVars, goals, userEmail,
                       session, cloudBusy, remote>>

\* one of the three requests of onSync rejects: catch, then finally
syncFails ==
    \E i \in DOMAIN procs :
        /\ procs[i].kind = "sync"
        /\ session # ""
        /\ SetCloudMsg("Error al sincronizar")
        /\ cloudBusy' = FALSE
        /\ procs' = Finish(procs, i)
        /\ UNCHANGED <<tx, month, from, to, prefVars, storage, uiVars, goals, userEmail,
                       session, remote>>

NextFail == NextCloud \/ syncFails \/ deleteTxCloudFails

SpecFail == InitCloud /\ [][NextFail]_vars

\* the i-th handler is a sync that ends in this step
SyncEnds(i) ==
    /\ procs[i].kind = "sync"
    /\ Len(procs') = Len(procs) - 1
    /\ procs' = Finish(procs, i)

C21_Keeps ==
    /\ deleteTxCloudFails => tx' = tx /\ cloudMsg' # ""
    /\ \A i \in DOMAIN procs :
          (SyncEnds(i) /\ (session = "" \/ cloudMsg' = "Error al sincronizar")) =>
              tx' = tx /\ cloudMsg' # ""

\* C21: a remote delete that fails leaves the list as the local delete left
\* it and sets a status message; a sync that ends because a request failed
\* or because there is no session leaves the list as it was and sets a
\* status message
C21_FailureKeepsLocal == [][C21_Keeps]_vars


(***************************************************************************)
(* The status message over every handler that sets it, App.tsx 262-304,    *)
(* 654-687 and 1525-1539.                                                  *)
(***************************************************************************)
\* a request of loadCloudData rejects inside its try block: catch, finally
loadFails ==
    \E i \in DOMAIN procs :
        /\ procs[i].kind = "load"
        /\ procs[i].pc # "getUser"
        /\ session # ""
        /\ SetCloudMsg("No se pudieron cargar los datos")
        /\ cloudBusy' = FALSE
        /\ procs' = Finish(procs, i)
        /\ UNCHANGED <<tx, month, from, to, prefVars, storage, uiVars, goals, userEmail,
                       session, remote>>

\* a request of handleSaveGoal rejects: catch, finally
saveGoalFails ==
    \E i \in DOMAIN procs :
        /\ procs[i].kind = "goal"
        /\ session # ""
        /\ SetCloudMsg("Error al guardar objetivo")
        /\ cloudBusy' = FALSE
        /\ procs' = Finish(procs, i)
        /\ UNCHANGED <<tx, month, from, to, prefVars, storage, uiVars, goals, userEmail,
                       session, remote>>

\* the save-settings button (disabled while cloudBusy) up to its await
onSaveSettings ==
    /\ ~cloudBusy
    /\ Len(procs) < MaxProcs
    /\ cloudBusy' = TRUE
    /\ procs' = Spawn(procs, [NewProc("settings", "saveSettings")
                                 EXCEPT !.tags = tags, !.budget = budget])
    /\ UNCHANGED <<tx, month, from, to, prefVars, storage, uiVars, goals, userEmail,
                   session, remote, msgVars>>

\* await saveSettings(...) has settled: it throws without a user, and the
\* backend may reject it; then the finally block
savedSettings ==
    \E i \in DOMAIN procs : \E ok \in BOOLEAN :
        /\ procs[i].kind = "settings"
        /\ IF ok /\ session # ""
           THEN /\ remote' = [remote EXCEPT !.settings =
                                 <<[tags |-> procs[i].tags, budget |-> procs[i].budget]>>]
                /\ SetCloudMsg("Ajustes guardados en la nube")
           ELSE /\ SetCloudMsg("Error al guardar ajustes")
                /\ UNCHANGED remote
        /\ cloudBusy' = FALSE
        /\ procs' = Finish(procs, i)
        /\ UNCHANGED <<tx, month, from, to, prefVars, storage, uiVars, goals, userEmail,
                       session>>

\* the delete button of a goal card, confirmed: handleDeleteGoal up to its await
handleDeleteGoal ==
    /\ goals # <<>>
    /\ Len(procs) < MaxProcs
    /\ cloudBusy' = TRUE
    /\ procs' = Spawn(procs, NewProc("goalDelete", "deleteGoal"))
    /\ UNCHANGED <<tx, month, from, to, prefVars, storage, uiVars, goals, userEmail,
                   session, remote, msgVars>>

\* await deleteGoal(id) has settled: without a user it returns at once, the
\* backend may reject it; on success the goal leaves the list
deletedGoal ==
    \E i \in DOMAIN procs : \E ok \in BOOLEAN :
        /\ procs[i].kind = "goalDelete"
        /\ IF ok \/ session = ""
           THEN /\ remote' = IF session = "" THEN remote
                             ELSE [remote EXCEPT !.goals = @ \ {GoalData}]
                /\ goals' = <<>>
                /\ SetCloudMsg("Objetivo eliminado")
           ELSE /\ SetCloudMsg("Error al eliminar objetivo")
                /\ UNCHANGED <<remote, goals>>
        /\ cloudBusy' = FALSE
        /\ procs' = Finish(procs, i)
        /\ UNCHANGED <<tx, month, from, to, prefVars, storage, uiVars, userEmail, session>>

NextMsg ==
    \/ mountUser
    \/ loadCloudData
    \/ loadFails
    \/ onSync
    \/ synced
    \/ syncFails
    \/ onSaveSettings
    \/ savedSettings
    \/ deleteOne
    \/ deleteTxCloud
    \/ deleteTxCloudFails
    \/ handleSaveGoal
    \/ savedGoal
    \/ saveGoalFails
    \/ handleDeleteGoal
    \/ deletedGoal
    \/ clearCloudMsg

\* the component mounts in a browser that holds the session of an account
\* with nothing in the backend; both mount effects are waiting for getUser()
InitMsg ==
    /\ InitLocal(<<StoredRecord>>, MonthOf(Today))
    /\ userEmail = ""
    /\ session = User
    /\ remote = EmptyRemote
    /\ procs = <<[NewProc("mount", "getUser") EXCEPT !.solo = FALSE],
                 [NewProc("load", "getUser") EXCEPT !.solo = FALSE]>>

\* the browser runs every timer callback that is due
SpecMsg == InitMsg /\ [][NextMsg]_vars /\ WF_vars(clearCloudMsg)

\* C25: a status message that has been set is cleared again, by its timer
\* and with no step of the user
C25_Transient == (cloudMsg # "") ~> (cloudMsg = "")

\* the message of a failed remote delete is showing and its timer is pending
C25_Witness ==
    /\ cloudMsg = "No se pudo borrar en la nube"
    /\ timers > 0


(***************************************************************************)
(* Contributions to a goal, supabase.ts 343-365.                           *)
(***************************************************************************)
\* most calls of addContributionToGoal the model follows
MaxCalls == 3

\* the amounts the calls contribute
Contributions == {Unit, 2 * Unit}

\* the row of the goal in the table goals before any contribution
GoalRow0 ==
    [id |-> "g1", name |-> "Viaje", target_amount |-> 7 * Unit, current_amount |-> Unit]

\* the row with the given id
GoalRowOf(id) == CHOOSE g \in remote.goals : g.id = id

\* a call addContributionToGoal("g1", a) waiting at await getUser(); the
\* field current_amount is what its select will have read
addContributionToGoal ==
    \E a \in Contributions :
        /\ Len(procs) < MaxCalls
        /\ procs' = Append(procs,
                           [kind |-> "contribute", pc |-> "getUser", id |-> "g1",
                            newContribution |-> a, current_amount |-> 0])
        /\ UNCHANGED <<tx, month, from, to, prefVars, storage, uiVars, goals, userEmail,
                       session, cloudBusy, remote, msgVars>>

\* a call moves past one await: getUser (throws without a user), the select
\* of current_amount (throws when there is no such row), the update with
\* newTotal = currentGoal.current_amount + newContribution
contributed ==
    \E i \in DOMAIN procs :
        /\ procs[i].kind = "contribute"
        /\ procs[i].pc \in {"getUser", "select", "update"}
        /\ CASE procs[i].pc = "getUser" ->
                  /\ procs' = Advance(i, IF session = "" THEN "thrown" ELSE "select")
                  /\ UNCHANGED remote
             [] procs[i].pc = "select" ->
                  /\ procs' = IF \E g \in remote.goals : g.id = procs[i].id
                              THEN [procs EXCEPT ![i].pc = "update",
                                       ![i].current_amount = GoalRowOf(procs[i].id).current_amount]
                              ELSE Advance(i, "thrown")
                  /\ UNCHANGED remote
             [] procs[i].pc = "update" ->
                  /\ remote' = [remote EXCEPT !.goals =
                        {IF g.id = procs[i].id
                         THEN [g EXCEPT !.current_amount =
                                  procs[i].current_amount + procs[i].newContribution]
                         ELSE g : g \in @}]
                  /\ procs' = Advance(i, "done")
        /\ UNCHANGED <<tx, month, from, to, prefVars, storage, uiVars, goals, userEmail,
                       session, cloudBusy, msgVars>>

InitGoal ==
    /\ InitLocal(<<StoredRecord>>, MonthOf(Today))
    /\ userEmail = User
    /\ session = User
    /\ remote = [EmptyRemote EXCEPT !.goals = {GoalRow0}]
    /\ procs = <<>>

NextGoal == addContributionToGoal \/ contributed

SpecGoal == InitGoal /\ [][NextGoal]_vars

\* the contributions of the calls that have returned
SumContributed ==
    LET F[i \in 0..Len(procs)] ==
            IF i = 0 THEN 0
            ELSE F[i - 1] + (IF procs[i].pc = "done" THEN procs[i].newContribution ELSE 0)
    IN F[Len(procs)]

\* C23: once every call that was made has returned, the goal's
\* current_amount is its first value plus the sum of the contributions
C23_Additive ==
    (\A i \in DOMAIN procs : procs[i].pc = "done") =>
        GoalRowOf("g1").current_amount = GoalRow0.current_amount + SumContributed


(***************************************************************************)
(* The active month under every change of the list: load, sync, creation,  *)
(* deletion and import, App.tsx 549-566 and 794-804.                       *)
(***************************************************************************)
\* a file with one record of January
ImportJanuary ==
    onImportChange(JSONstringify("object",
        [tx |-> JSONstringify("array", <<OtherList[1]>>), tags |-> Absent,
         budget |-> Absent]))

\* (a row can be deleted here only before the first load has replaced the
\* list, while no user is known to the component: no remote delete starts)
NextMonth ==
    \/ mountUser
    \/ loadCloudData
    \/ onSync
    \/ synced
    \/ SetTrfDate
    \/ SetTrfAmount
    \/ handleTransfer
    \/ deleteOne
    \/ ImportJanuary
    \/ SetMonth

SpecMonth == InitMsg /\ [][NextMonth]_vars

\* the greatest month of monthsWithData
LatestMonth(list) ==
    CHOOSE x \in monthsWithData(list) : \A y \in monthsWithData(list) : y <= x

C30_Member ==
    /\ month \in monthsWithData(tx)
    /\ tx # <<>> => \E k \in DOMAIN tx : MonthOf(tx[k].date) = month

C30_Fallback == month \notin monthsWithData(tx') => month' = LatestMonth(tx')

\* C30: after every step the active month is one of monthsWithData, a month
\* with a record when the list is not empty; and when a step leaves the
\* active month without records, the active month becomes the latest month
\* that has records
C30_MonthListed == []C30_Member /\ [][C30_Fallback]_vars

\* the stored record of February is gone and the list holds records of
\* January only: the active month is January
C30_Witness ==
    /\ Deleted = 1
    /\ tx # <<>>
    /\ \A k \in DOMAIN tx : MonthOf(tx[k].date) = 202401
    /\ month = 202401
    /\ storage.month = 202401


====
